---- MODULE Spec2Model ----
(***************************************************************************)
(* The three-stage decision pipeline of the nutrition engine:              *)
(*   analyze_lab_data    (src/bio_analyzer.py)                             *)
(*   resource_locator    (src/resource_locator.py)                         *)
(*   generate_shopping_list (src/shopping_planner.py)                      *)
(* over the profile of src/user_context.py.                                *)
(*                                                                         *)
(* Units: money is in cents, distances in tenths of a mile, CRP and        *)
(* homocysteine in tenths of their unit, accessibility scores in           *)
(* hundredths.  Optional[T] is a sequence of length 0 (None) or 1.         *)
(* Python strings that the code searches (x in y), lower()s or slices are  *)
(* spelled out character by character in Chars.                            *)
(***************************************************************************)
EXTENDS Integers, Sequences, FiniteSets, TLC

VARIABLES
  NUTRIENT_FOOD_SOURCES,      \* module-level dict of bio_analyzer
  LAB_REFERENCE_RANGES,       \* module-level dict of bio_analyzer
  SYNTHETIC_STORES_DATABASE,  \* module-level dict of resource_locator
  FOOD_DATABASE,              \* module-level dict of shopping_planner
  BUDGET_ALTERNATIVES,        \* module-level dict of shopping_planner
  runs                        \* request id -> the locals of that pipeline run

catalogs == <<NUTRIENT_FOOD_SOURCES, LAB_REFERENCE_RANGES,
              SYNTHETIC_STORES_DATABASE, FOOD_DATABASE, BUDGET_ALTERNATIVES>>
vars == <<NUTRIENT_FOOD_SOURCES, LAB_REFERENCE_RANGES,
          SYNTHETIC_STORES_DATABASE, FOOD_DATABASE, BUDGET_ALTERNATIVES, runs>>

-----------------------------------------------------------------------------
(* Python values *)

NoneVal == <<>>
Some(x) == <<x>>
IsNone(o) == Len(o) = 0
Val(o) == o[1]

Range(s) == {s[i] : i \in 1..Len(s)}

RECURSIVE Flatten(_)
Flatten(ss) == IF Len(ss) = 0 THEN <<>> ELSE Head(ss) \o Flatten(Tail(ss))

RECURSIVE SumSeq(_)
SumSeq(s) == IF Len(s) = 0 THEN 0 ELSE Head(s) + SumSeq(Tail(s))

Max0(x) == IF x > 0 THEN x ELSE 0

(* sorted(s, key=...) / list.sort(key=...): a stable sort.  keys[i] is the  *)
(* key of s[i], a tuple of integers compared lexicographically.             *)
RECURSIVE LexLess(_, _)
LexLess(a, b) ==
  IF Len(a) = 0 \/ Len(b) = 0 THEN Len(a) < Len(b)
  ELSE IF Head(a) # Head(b) THEN Head(a) < Head(b)
  ELSE LexLess(Tail(a), Tail(b))

SortRank(keys, i) ==
  1 + Cardinality({j \in 1..Len(keys) :
                     LexLess(keys[j], keys[i]) \/ (keys[j] = keys[i] /\ j < i)})

StableSort(s, keys) ==
  [r \in 1..Len(s) |-> s[CHOOSE i \in 1..Len(s) : SortRank(keys, i) = r]]

(* str: characters, lower(), upper(), x in y, s[:n] *)

LowerCase ==
  [A |-> "a", B |-> "b", C |-> "c", D |-> "d", E |-> "e", F |-> "f", G |-> "g", H |-> "h", I |-> "i", J |-> "j", K |-> "k", L |-> "l", M |-> "m",
   N |-> "n", O |-> "o", P |-> "p", Q |-> "q", R |-> "r", S |-> "s", T |-> "t", U |-> "u", V |-> "v", W |-> "w", X |-> "x", Y |-> "y", Z |-> "z"]

UpperCase ==
  [a |-> "A", b |-> "B", c |-> "C", d |-> "D", e |-> "E", f |-> "F", g |-> "G", h |-> "H", i |-> "I", j |-> "J", k |-> "K", l |-> "L", m |-> "M",
   n |-> "N", o |-> "O", p |-> "P", q |-> "Q", r |-> "R", s |-> "S", t |-> "T", u |-> "U", v |-> "V", w |-> "W", x |-> "X", y |-> "Y", z |-> "Z"]

lower(cs) == [i \in 1..Len(cs) |-> IF cs[i] \in DOMAIN LowerCase THEN LowerCase[cs[i]] ELSE cs[i]]

upper(cs) == [i \in 1..Len(cs) |-> IF cs[i] \in DOMAIN UpperCase THEN UpperCase[cs[i]] ELSE cs[i]]

(* needle in haystack, on character sequences *)
Contains(haystack, needle) ==
  \E i \in 0..(Len(haystack) - Len(needle)) :
     \A k \in 1..Len(needle) : haystack[i + k] = needle[k]

(* s[:n] *)
Prefix(cs, n) == IF Len(cs) >= n THEN SubSeq(cs, 1, n) ELSE cs

(* The strings of the catalogs, the rule keys and the inputs, spelled out *)
Chars ==
  "eggs" :> <<"e", "g", "g", "s">> @@
  "fortified cereals" :> <<"f", "o", "r", "t", "i", "f", "i", "e", "d", " ", "c", "e", "r", "e", "a", "l", "s">> @@
  "nutritional yeast" :> <<"n", "u", "t", "r", "i", "t", "i", "o", "n", "a", "l", " ", "y", "e", "a", "s", "t">> @@
  "sardines" :> <<"s", "a", "r", "d", "i", "n", "e", "s">> @@
  "beef liver" :> <<"b", "e", "e", "f", " ", "l", "i", "v", "e", "r">> @@
  "clams" :> <<"c", "l", "a", "m", "s">> @@
  "fortified plant milk" :> <<"f", "o", "r", "t", "i", "f", "i", "e", "d", " ", "p", "l", "a", "n", "t", " ", "m", "i", "l", "k">> @@
  "spinach" :> <<"s", "p", "i", "n", "a", "c", "h">> @@
  "lentils" :> <<"l", "e", "n", "t", "i", "l", "s">> @@
  "asparagus" :> <<"a", "s", "p", "a", "r", "a", "g", "u", "s">> @@
  "broccoli" :> <<"b", "r", "o", "c", "c", "o", "l", "i">> @@
  "avocado" :> <<"a", "v", "o", "c", "a", "d", "o">> @@
  "black-eyed peas" :> <<"b", "l", "a", "c", "k", "-", "e", "y", "e", "d", " ", "p", "e", "a", "s">> @@
  "brussels sprouts" :> <<"b", "r", "u", "s", "s", "e", "l", "s", " ", "s", "p", "r", "o", "u", "t", "s">> @@
  "romaine lettuce" :> <<"r", "o", "m", "a", "i", "n", "e", " ", "l", "e", "t", "t", "u", "c", "e">> @@
  "fortified milk" :> <<"f", "o", "r", "t", "i", "f", "i", "e", "d", " ", "m", "i", "l", "k">> @@
  "egg yolks" :> <<"e", "g", "g", " ", "y", "o", "l", "k", "s">> @@
  "salmon" :> <<"s", "a", "l", "m", "o", "n">> @@
  "fortified orange juice" :> <<"f", "o", "r", "t", "i", "f", "i", "e", "d", " ", "o", "r", "a", "n", "g", "e", " ", "j", "u", "i", "c", "e">> @@
  "mushrooms (UV-exposed)" :> <<"m", "u", "s", "h", "r", "o", "o", "m", "s", " ", "(", "U", "V", "-", "e", "x", "p", "o", "s", "e", "d", ")">> @@
  "chickpeas" :> <<"c", "h", "i", "c", "k", "p", "e", "a", "s">> @@
  "beef" :> <<"b", "e", "e", "f">> @@
  "pumpkin seeds" :> <<"p", "u", "m", "p", "k", "i", "n", " ", "s", "e", "e", "d", "s">> @@
  "quinoa" :> <<"q", "u", "i", "n", "o", "a">> @@
  "dark chocolate" :> <<"d", "a", "r", "k", " ", "c", "h", "o", "c", "o", "l", "a", "t", "e">> @@
  "walnuts" :> <<"w", "a", "l", "n", "u", "t", "s">> @@
  "flaxseed" :> <<"f", "l", "a", "x", "s", "e", "e", "d">> @@
  "chia seeds" :> <<"c", "h", "i", "a", " ", "s", "e", "e", "d", "s">> @@
  "mackerel" :> <<"m", "a", "c", "k", "e", "r", "e", "l">> @@
  "hemp seeds" :> <<"h", "e", "m", "p", " ", "s", "e", "e", "d", "s">> @@
  "turmeric" :> <<"t", "u", "r", "m", "e", "r", "i", "c">> @@
  "ginger" :> <<"g", "i", "n", "g", "e", "r">> @@
  "berries" :> <<"b", "e", "r", "r", "i", "e", "s">> @@
  "leafy greens" :> <<"l", "e", "a", "f", "y", " ", "g", "r", "e", "e", "n", "s">> @@
  "fatty fish" :> <<"f", "a", "t", "t", "y", " ", "f", "i", "s", "h">> @@
  "olive oil" :> <<"o", "l", "i", "v", "e", " ", "o", "i", "l">> @@
  "tomatoes" :> <<"t", "o", "m", "a", "t", "o", "e", "s">> @@
  "nuts" :> <<"n", "u", "t", "s">> @@
  "green tea" :> <<"g", "r", "e", "e", "n", " ", "t", "e", "a">> @@
  "black beans" :> <<"b", "l", "a", "c", "k", " ", "b", "e", "a", "n", "s">> @@
  "almonds" :> <<"a", "l", "m", "o", "n", "d", "s">> @@
  "oats" :> <<"o", "a", "t", "s">> @@
  "beans" :> <<"b", "e", "a", "n", "s">> @@
  "apples" :> <<"a", "p", "p", "l", "e", "s">> @@
  "whole grains" :> <<"w", "h", "o", "l", "e", " ", "g", "r", "a", "i", "n", "s">> @@
  "dark leafy greens" :> <<"d", "a", "r", "k", " ", "l", "e", "a", "f", "y", " ", "g", "r", "e", "e", "n", "s">> @@
  "pecans" :> <<"p", "e", "c", "a", "n", "s">> @@
  "artichokes" :> <<"a", "r", "t", "i", "c", "h", "o", "k", "e", "s">> @@
  "beets" :> <<"b", "e", "e", "t", "s">> @@
  "red cabbage" :> <<"r", "e", "d", " ", "c", "a", "b", "b", "a", "g", "e">> @@
  "grape juice" :> <<"g", "r", "a", "p", "e", " ", "j", "u", "i", "c", "e">> @@
  "green beans" :> <<"g", "r", "e", "e", "n", " ", "b", "e", "a", "n", "s">> @@
  "potatoes" :> <<"p", "o", "t", "a", "t", "o", "e", "s">> @@
  "Spinach (fresh bunch)" :> <<"S", "p", "i", "n", "a", "c", "h", " ", "(", "f", "r", "e", "s", "h", " ", "b", "u", "n", "c", "h", ")">> @@
  "Spinach (frozen bag)" :> <<"S", "p", "i", "n", "a", "c", "h", " ", "(", "f", "r", "o", "z", "e", "n", " ", "b", "a", "g", ")">> @@
  "Broccoli" :> <<"B", "r", "o", "c", "c", "o", "l", "i">> @@
  "Kale" :> <<"K", "a", "l", "e">> @@
  "Lentils (dry)" :> <<"L", "e", "n", "t", "i", "l", "s", " ", "(", "d", "r", "y", ")">> @@
  "Black Beans (canned)" :> <<"B", "l", "a", "c", "k", " ", "B", "e", "a", "n", "s", " ", "(", "c", "a", "n", "n", "e", "d", ")">> @@
  "Chickpeas (canned)" :> <<"C", "h", "i", "c", "k", "p", "e", "a", "s", " ", "(", "c", "a", "n", "n", "e", "d", ")">> @@
  "Eggs (dozen)" :> <<"E", "g", "g", "s", " ", "(", "d", "o", "z", "e", "n", ")">> @@
  "Sardines (canned)" :> <<"S", "a", "r", "d", "i", "n", "e", "s", " ", "(", "c", "a", "n", "n", "e", "d", ")">> @@
  "Salmon (canned)" :> <<"S", "a", "l", "m", "o", "n", " ", "(", "c", "a", "n", "n", "e", "d", ")">> @@
  "Chicken Thighs" :> <<"C", "h", "i", "c", "k", "e", "n", " ", "T", "h", "i", "g", "h", "s">> @@
  "Beef Liver" :> <<"B", "e", "e", "f", " ", "L", "i", "v", "e", "r">> @@
  "Oats (rolled)" :> <<"O", "a", "t", "s", " ", "(", "r", "o", "l", "l", "e", "d", ")">> @@
  "Fortified Cereal" :> <<"F", "o", "r", "t", "i", "f", "i", "e", "d", " ", "C", "e", "r", "e", "a", "l">> @@
  "Quinoa" :> <<"Q", "u", "i", "n", "o", "a">> @@
  "Walnuts" :> <<"W", "a", "l", "n", "u", "t", "s">> @@
  "Ground Flaxseed" :> <<"G", "r", "o", "u", "n", "d", " ", "F", "l", "a", "x", "s", "e", "e", "d">> @@
  "Chia Seeds" :> <<"C", "h", "i", "a", " ", "S", "e", "e", "d", "s">> @@
  "Pumpkin Seeds" :> <<"P", "u", "m", "p", "k", "i", "n", " ", "S", "e", "e", "d", "s">> @@
  "Turmeric (ground)" :> <<"T", "u", "r", "m", "e", "r", "i", "c", " ", "(", "g", "r", "o", "u", "n", "d", ")">> @@
  "Ginger Root" :> <<"G", "i", "n", "g", "e", "r", " ", "R", "o", "o", "t">> @@
  "Mixed Berries (frozen)" :> <<"M", "i", "x", "e", "d", " ", "B", "e", "r", "r", "i", "e", "s", " ", "(", "f", "r", "o", "z", "e", "n", ")">> @@
  "Olive Oil (extra virgin)" :> <<"O", "l", "i", "v", "e", " ", "O", "i", "l", " ", "(", "e", "x", "t", "r", "a", " ", "v", "i", "r", "g", "i", "n", ")">> @@
  "Fortified Milk (or plant milk)" :> <<"F", "o", "r", "t", "i", "f", "i", "e", "d", " ", "M", "i", "l", "k", " ", "(", "o", "r", " ", "p", "l", "a", "n", "t", " ", "m", "i", "l", "k", ")">> @@
  "Yogurt" :> <<"Y", "o", "g", "u", "r", "t">> @@
  "Brown Rice" :> <<"B", "r", "o", "w", "n", " ", "R", "i", "c", "e">> @@
  "Peanut Butter" :> <<"P", "e", "a", "n", "u", "t", " ", "B", "u", "t", "t", "e", "r">> @@
  "Bananas" :> <<"B", "a", "n", "a", "n", "a", "s">> @@
  "fatigue" :> <<"f", "a", "t", "i", "g", "u", "e">> @@
  "brain_fog" :> <<"b", "r", "a", "i", "n", "_", "f", "o", "g">> @@
  "joint_pain" :> <<"j", "o", "i", "n", "t", "_", "p", "a", "i", "n">> @@
  "anxiety" :> <<"a", "n", "x", "i", "e", "t", "y">> @@
  "weak_immunity" :> <<"w", "e", "a", "k", "_", "i", "m", "m", "u", "n", "i", "t", "y">> @@
  "diabetes" :> <<"d", "i", "a", "b", "e", "t", "e", "s">> @@
  "heart" :> <<"h", "e", "a", "r", "t">> @@
  "cardiovascular" :> <<"c", "a", "r", "d", "i", "o", "v", "a", "s", "c", "u", "l", "a", "r">> @@
  "cancer" :> <<"c", "a", "n", "c", "e", "r">> @@
  "C677T" :> <<"C", "6", "7", "7", "T">> @@
  "COMPOUND" :> <<"C", "O", "M", "P", "O", "U", "N", "D">> @@
  "HOMOZYGOUS" :> <<"H", "O", "M", "O", "Z", "Y", "G", "O", "U", "S">> @@
  "A1298C" :> <<"A", "1", "2", "9", "8", "C">> @@
  "slow" :> <<"s", "l", "o", "w">> @@
  "default" :> <<"d", "e", "f", "a", "u", "l", "t">> @@
  "303" :> <<"3", "0", "3">> @@
  "300" :> <<"3", "0", "0">> @@
  "Fatigue" :> <<"F", "a", "t", "i", "g", "u", "e">> @@
  "heart_disease" :> <<"h", "e", "a", "r", "t", "_", "d", "i", "s", "e", "a", "s", "e">> @@
  "hypertension" :> <<"h", "y", "p", "e", "r", "t", "e", "n", "s", "i", "o", "n">> @@
  "poor_sleep" :> <<"p", "o", "o", "r", "_", "s", "l", "e", "e", "p">> @@
  "c677t" :> <<"c", "6", "7", "7", "t">> @@
  "Compound" :> <<"C", "o", "m", "p", "o", "u", "n", "d">> @@
  "Slow" :> <<"S", "l", "o", "w">> @@
  "fast" :> <<"f", "a", "s", "t">> @@
  "shellfish" :> <<"s", "h", "e", "l", "l", "f", "i", "s", "h">> @@
  "Sardines" :> <<"S", "a", "r", "d", "i", "n", "e", "s">> @@
  "frozen" :> <<"f", "r", "o", "z", "e", "n">> @@
  "fortified" :> <<"f", "o", "r", "t", "i", "f", "i", "e", "d">> @@
  "egg" :> <<"e", "g", "g">> @@
  "mushrooms" :> <<"m", "u", "s", "h", "r", "o", "o", "m", "s">> @@
  "grape" :> <<"g", "r", "a", "p", "e">> @@
  "grain" :> <<"g", "r", "a", "i", "n">> @@
  "bean" :> <<"b", "e", "a", "n">> @@
  "potato" :> <<"p", "o", "t", "a", "t", "o">> @@
  "dairy" :> <<"d", "a", "i", "r", "y">> @@
  "30312" :> <<"3", "0", "3", "1", "2">> @@
  "00000" :> <<"0", "0", "0", "0", "0">> @@
  "30" :> <<"3", "0">>

-----------------------------------------------------------------------------
(* Reference catalogs: the initial values of the module-level dicts.  A dict  *)
(* whose iteration order the code relies on is a sequence in declaration     *)
(* order.                                                                   *)

NutrientFoodSourcesCatalog ==
  "Vitamin B12" :> <<"eggs", "fortified cereals", "nutritional yeast", "sardines", "beef liver", "clams", "fortified plant milk">> @@
  "Methylfolate" :> <<"spinach", "lentils", "asparagus", "broccoli", "avocado", "black-eyed peas", "brussels sprouts", "romaine lettuce">> @@
  "Vitamin D" :> <<"fortified milk", "egg yolks", "salmon", "sardines", "fortified orange juice", "mushrooms (UV-exposed)">> @@
  "Iron" :> <<"spinach", "lentils", "chickpeas", "beef", "fortified cereals", "pumpkin seeds", "quinoa", "dark chocolate">> @@
  "Omega-3 Fatty Acids" :> <<"salmon", "sardines", "walnuts", "flaxseed", "chia seeds", "mackerel", "hemp seeds">> @@
  "Anti-inflammatory Foods" :> <<"turmeric", "ginger", "berries", "leafy greens", "fatty fish", "olive oil", "tomatoes", "nuts", "green tea">> @@
  "Magnesium" :> <<"spinach", "pumpkin seeds", "black beans", "almonds", "avocado", "dark chocolate", "quinoa">> @@
  "Fiber" :> <<"oats", "beans", "lentils", "berries", "broccoli", "apples", "whole grains", "chia seeds">> @@
  "Antioxidants" :> <<"berries", "dark leafy greens", "pecans", "artichokes", "beets", "red cabbage", "dark chocolate">> @@
  "Chromium" :> <<"broccoli", "grape juice", "whole grains", "beef", "green beans", "potatoes">>

LabReferenceRangesCatalog ==
  [vitamin_b12 |-> [low |-> 300, optimal_low |-> 500, optimal_high |-> 900],
   vitamin_d |-> [low |-> 20, optimal_low |-> 40, optimal_high |-> 60],
   iron |-> [low |-> 60, optimal_low |-> 80, optimal_high |-> 170],
   ferritin |-> [low |-> 30, optimal_low |-> 50, optimal_high |-> 150],
   crp |-> [optimal_high |-> 10, elevated |-> 30, high |-> 100],
   homocysteine |-> [optimal_high |-> 70, elevated |-> 120, high |-> 150],
   glucose_fasting |-> [optimal_high |-> 100, prediabetic |-> 125, diabetic |-> 126],
   omega3_index |-> [low |-> 4, optimal_low |-> 8, optimal_high |-> 12]]

SyntheticStoresCatalog ==
  "default" :> <<
     [name |-> "SaveMart Grocery", store_type |-> "grocery", distance_miles |-> 12,
      snap_accepted |-> TRUE, wic_accepted |-> TRUE, inventory_level |-> "high", price_tier |-> 3,
      specialty_items |-> <<"organic produce", "gluten-free">>, hours |-> "7am-10pm"],
     [name |-> "Community Food Pantry", store_type |-> "food_pantry", distance_miles |-> 8,
      snap_accepted |-> FALSE, wic_accepted |-> FALSE, inventory_level |-> "medium", price_tier |-> 1,
      specialty_items |-> <<"canned goods", "bread", "produce">>, hours |-> "Mon/Wed/Fri 10am-2pm"],
     [name |-> "Budget Foods", store_type |-> "discount", distance_miles |-> 25,
      snap_accepted |-> TRUE, wic_accepted |-> FALSE, inventory_level |-> "high", price_tier |-> 1,
      specialty_items |-> <<"bulk items", "frozen foods">>, hours |-> "8am-9pm"],
     [name |-> "Fresh Farmers Market", store_type |-> "farmers_market", distance_miles |-> 18,
      snap_accepted |-> TRUE, wic_accepted |-> TRUE, inventory_level |-> "medium", price_tier |-> 2,
      specialty_items |-> <<"local produce", "eggs", "honey">>, hours |-> "Sat 8am-1pm"],
     [name |-> "Whole Health Foods", store_type |-> "specialty", distance_miles |-> 32,
      snap_accepted |-> FALSE, wic_accepted |-> FALSE, inventory_level |-> "high", price_tier |-> 5,
      specialty_items |-> <<"supplements", "organic", "specialty diet">>, hours |-> "9am-8pm"],
     [name |-> "Dollar General", store_type |-> "discount", distance_miles |-> 5,
      snap_accepted |-> TRUE, wic_accepted |-> FALSE, inventory_level |-> "low", price_tier |-> 2,
      specialty_items |-> <<"canned goods", "snacks", "basic staples">>, hours |-> "8am-10pm"],
     [name |-> "St. Mary's Food Bank", store_type |-> "food_pantry", distance_miles |-> 21,
      snap_accepted |-> FALSE, wic_accepted |-> FALSE, inventory_level |-> "high", price_tier |-> 1,
      specialty_items |-> <<"fresh produce", "meat", "dairy">>, hours |-> "Tue/Thu 9am-3pm"],
     [name |-> "ALDI", store_type |-> "discount", distance_miles |-> 40,
      snap_accepted |-> TRUE, wic_accepted |-> TRUE, inventory_level |-> "high", price_tier |-> 1,
      specialty_items |-> <<"produce", "dairy", "frozen", "specialty imports">>, hours |-> "9am-8pm"],
     [name |-> "Target", store_type |-> "grocery", distance_miles |-> 55,
      snap_accepted |-> TRUE, wic_accepted |-> TRUE, inventory_level |-> "high", price_tier |-> 3,
      specialty_items |-> <<"organic", "fresh produce", "supplements">>, hours |-> "8am-10pm"],
     [name |-> "Neighborhood Co-op", store_type |-> "specialty", distance_miles |-> 15,
      snap_accepted |-> TRUE, wic_accepted |-> FALSE, inventory_level |-> "medium", price_tier |-> 4,
      specialty_items |-> <<"local", "organic", "bulk bins", "specialty">>, hours |-> "10am-7pm"]>> @@
  "303" :> <<
     [name |-> "King Soopers", store_type |-> "grocery", distance_miles |-> 10,
      snap_accepted |-> TRUE, wic_accepted |-> TRUE, inventory_level |-> "high", price_tier |-> 3,
      specialty_items |-> <<"organic", "deli", "pharmacy">>, hours |-> "6am-11pm"]>> @@
  "300" :> <<
     [name |-> "Publix", store_type |-> "grocery", distance_miles |-> 13,
      snap_accepted |-> TRUE, wic_accepted |-> TRUE, inventory_level |-> "high", price_tier |-> 3,
      specialty_items |-> <<"deli", "bakery", "organic">>, hours |-> "7am-10pm"]>>

FoodCatalog ==
  <<[key |-> "spinach", food |->
       [name |-> "Spinach (fresh bunch)", category |-> "produce", price_estimate |-> 250,
        snap_eligible |-> TRUE, wic_eligible |-> TRUE,
        nutrients_provided |-> <<"Iron", "Methylfolate", "Magnesium", "Anti-inflammatory Foods">>]],
    [key |-> "spinach_frozen", food |->
       [name |-> "Spinach (frozen bag)", category |-> "frozen", price_estimate |-> 150,
        snap_eligible |-> TRUE, wic_eligible |-> FALSE,
        nutrients_provided |-> <<"Iron", "Methylfolate", "Magnesium">>]],
    [key |-> "broccoli", food |->
       [name |-> "Broccoli", category |-> "produce", price_estimate |-> 175,
        snap_eligible |-> TRUE, wic_eligible |-> TRUE,
        nutrients_provided |-> <<"Fiber", "Chromium", "Anti-inflammatory Foods">>]],
    [key |-> "kale", food |->
       [name |-> "Kale", category |-> "produce", price_estimate |-> 200,
        snap_eligible |-> TRUE, wic_eligible |-> FALSE,
        nutrients_provided |-> <<"Iron", "Antioxidants", "Anti-inflammatory Foods">>]],
    [key |-> "lentils_dry", food |->
       [name |-> "Lentils (dry)", category |-> "dry goods", price_estimate |-> 150,
        snap_eligible |-> TRUE, wic_eligible |-> FALSE,
        nutrients_provided |-> <<"Iron", "Fiber", "Methylfolate">>]],
    [key |-> "black_beans_canned", food |->
       [name |-> "Black Beans (canned)", category |-> "canned", price_estimate |-> 89,
        snap_eligible |-> TRUE, wic_eligible |-> FALSE,
        nutrients_provided |-> <<"Fiber", "Iron", "Magnesium">>]],
    [key |-> "chickpeas_canned", food |->
       [name |-> "Chickpeas (canned)", category |-> "canned", price_estimate |-> 100,
        snap_eligible |-> TRUE, wic_eligible |-> FALSE,
        nutrients_provided |-> <<"Iron", "Fiber">>]],
    [key |-> "eggs", food |->
       [name |-> "Eggs (dozen)", category |-> "dairy", price_estimate |-> 350,
        snap_eligible |-> TRUE, wic_eligible |-> TRUE,
        nutrients_provided |-> <<"Vitamin B12", "Vitamin D">>]],
    [key |-> "sardines_canned", food |->
       [name |-> "Sardines (canned)", category |-> "canned", price_estimate |-> 200,
        snap_eligible |-> TRUE, wic_eligible |-> FALSE,
        nutrients_provided |-> <<"Vitamin B12", "Vitamin D", "Omega-3 Fatty Acids">>]],
    [key |-> "salmon_canned", food |->
       [name |-> "Salmon (canned)", category |-> "canned", price_estimate |-> 350,
        snap_eligible |-> TRUE, wic_eligible |-> FALSE,
        nutrients_provided |-> <<"Vitamin B12", "Vitamin D", "Omega-3 Fatty Acids">>]],
    [key |-> "chicken_thighs", food |->
       [name |-> "Chicken Thighs", category |-> "meat", price_estimate |-> 400,
        snap_eligible |-> TRUE, wic_eligible |-> FALSE,
        nutrients_provided |-> <<"Vitamin B12", "Iron">>]],
    [key |-> "beef_liver", food |->
       [name |-> "Beef Liver", category |-> "meat", price_estimate |-> 300,
        snap_eligible |-> TRUE, wic_eligible |-> FALSE,
        nutrients_provided |-> <<"Vitamin B12", "Iron", "Vitamin D">>]],
    [key |-> "oats", food |->
       [name |-> "Oats (rolled)", category |-> "dry goods", price_estimate |-> 250,
        snap_eligible |-> TRUE, wic_eligible |-> TRUE,
        nutrients_provided |-> <<"Fiber", "Magnesium">>]],
    [key |-> "fortified_cereal", food |->
       [name |-> "Fortified Cereal", category |-> "dry goods", price_estimate |-> 300,
        snap_eligible |-> TRUE, wic_eligible |-> TRUE,
        nutrients_provided |-> <<"Vitamin B12", "Iron", "Methylfolate">>]],
    [key |-> "quinoa", food |->
       [name |-> "Quinoa", category |-> "dry goods", price_estimate |-> 500,
        snap_eligible |-> TRUE, wic_eligible |-> FALSE,
        nutrients_provided |-> <<"Iron", "Magnesium", "Fiber">>]],
    [key |-> "walnuts", food |->
       [name |-> "Walnuts", category |-> "nuts", price_estimate |-> 600,
        snap_eligible |-> TRUE, wic_eligible |-> FALSE,
        nutrients_provided |-> <<"Omega-3 Fatty Acids", "Magnesium">>]],
    [key |-> "flaxseed", food |->
       [name |-> "Ground Flaxseed", category |-> "nuts", price_estimate |-> 400,
        snap_eligible |-> TRUE, wic_eligible |-> FALSE,
        nutrients_provided |-> <<"Omega-3 Fatty Acids", "Fiber">>]],
    [key |-> "chia_seeds", food |->
       [name |-> "Chia Seeds", category |-> "nuts", price_estimate |-> 550,
        snap_eligible |-> TRUE, wic_eligible |-> FALSE,
        nutrients_provided |-> <<"Omega-3 Fatty Acids", "Fiber">>]],
    [key |-> "pumpkin_seeds", food |->
       [name |-> "Pumpkin Seeds", category |-> "nuts", price_estimate |-> 450,
        snap_eligible |-> TRUE, wic_eligible |-> FALSE,
        nutrients_provided |-> <<"Iron", "Magnesium">>]],
    [key |-> "turmeric", food |->
       [name |-> "Turmeric (ground)", category |-> "spices", price_estimate |-> 350,
        snap_eligible |-> TRUE, wic_eligible |-> FALSE,
        nutrients_provided |-> <<"Anti-inflammatory Foods">>]],
    [key |-> "ginger_root", food |->
       [name |-> "Ginger Root", category |-> "produce", price_estimate |-> 100,
        snap_eligible |-> TRUE, wic_eligible |-> FALSE,
        nutrients_provided |-> <<"Anti-inflammatory Foods">>]],
    [key |-> "berries_frozen", food |->
       [name |-> "Mixed Berries (frozen)", category |-> "frozen", price_estimate |-> 350,
        snap_eligible |-> TRUE, wic_eligible |-> TRUE,
        nutrients_provided |-> <<"Antioxidants", "Anti-inflammatory Foods", "Fiber">>]],
    [key |-> "olive_oil", food |->
       [name |-> "Olive Oil (extra virgin)", category |-> "oils", price_estimate |-> 700,
        snap_eligible |-> TRUE, wic_eligible |-> FALSE,
        nutrients_provided |-> <<"Anti-inflammatory Foods", "Omega-3 Fatty Acids">>]],
    [key |-> "fortified_milk", food |->
       [name |-> "Fortified Milk (or plant milk)", category |-> "dairy", price_estimate |-> 300,
        snap_eligible |-> TRUE, wic_eligible |-> TRUE,
        nutrients_provided |-> <<"Vitamin D", "Vitamin B12">>]],
    [key |-> "yogurt", food |->
       [name |-> "Yogurt", category |-> "dairy", price_estimate |-> 400,
        snap_eligible |-> TRUE, wic_eligible |-> TRUE,
        nutrients_provided |-> <<"Vitamin B12", "Vitamin D">>]],
    [key |-> "brown_rice", food |->
       [name |-> "Brown Rice", category |-> "dry goods", price_estimate |-> 200,
        snap_eligible |-> TRUE, wic_eligible |-> FALSE,
        nutrients_provided |-> <<"Fiber", "Magnesium">>]],
    [key |-> "peanut_butter", food |->
       [name |-> "Peanut Butter", category |-> "dry goods", price_estimate |-> 300,
        snap_eligible |-> TRUE, wic_eligible |-> TRUE,
        nutrients_provided |-> <<"Magnesium">>]],
    [key |-> "bananas", food |->
       [name |-> "Bananas", category |-> "produce", price_estimate |-> 50,
        snap_eligible |-> TRUE, wic_eligible |-> TRUE,
        nutrients_provided |-> <<"Magnesium", "Fiber">>]]>>

BudgetAlternativesCatalog ==
  [salmon_canned |-> "sardines_canned",
   quinoa |-> "brown_rice",
   walnuts |-> "flaxseed",
   chia_seeds |-> "flaxseed",
   kale |-> "spinach_frozen",
   spinach |-> "spinach_frozen",
   chicken_thighs |-> "eggs"]

-----------------------------------------------------------------------------
(* bio_analyzer: the rule battery *)

(* One clause of a rationale: the text of the f-string, the lab level and   *)
(* the variant code interpolated into it (0 and <<>> when it has none).      *)
(* NutrientNeed.reason is the sequence of the clauses joined by "; Also: ".  *)
Reason(text, level, variant) == <<[text |-> text, level |-> level, variant |-> variant]>>

NutrientNeed(nutrient, priority, reason, related_markers) ==
  [nutrient |-> nutrient, priority |-> priority, reason |-> reason,
   related_markers |-> related_markers,
   food_sources |-> NUTRIENT_FOOD_SOURCES[nutrient]]

Has(lab, f) == f \in DOMAIN lab

analyze_methylation_markers(lab) ==
  LET variant == upper(Chars[lab.mthfr_variant])
      mthfr ==
        IF Has(lab, "mthfr_variant") /\ lab.mthfr_variant # ""
        THEN IF variant \in {Chars["C677T"], Chars["COMPOUND"], Chars["HOMOZYGOUS"]}
             THEN << NutrientNeed("Methylfolate", 1,
                        Reason("MTHFR variant detected - reduced ability to convert folic acid", 0, variant),
                        <<"MTHFR", "homocysteine">>),
                     NutrientNeed("Vitamin B12", 1,
                        Reason("MTHFR requires adequate B12 for proper methylation cycle function", 0, variant),
                        <<"MTHFR", "methylation">>) >>
             ELSE IF variant = Chars["A1298C"]
             THEN << NutrientNeed("Methylfolate", 2,
                        Reason("MTHFR A1298C variant - moderately reduced folate metabolism", 0, <<>>),
                        <<"MTHFR", "BH4">>) >>
             ELSE <<>>
        ELSE <<>>
      comt ==
        IF Has(lab, "comt_variant") /\ lab.comt_variant # ""
           /\ lower(Chars[lab.comt_variant]) = Chars["slow"]
        THEN << NutrientNeed("Magnesium", 2,
                   Reason("Slow COMT variant - magnesium supports stress response", 0, <<>>),
                   <<"COMT", "catecholamines">>) >>
        ELSE <<>>
  IN mthfr \o comt

(* the band test with the boundary value taken into the lower band *)
AtOrBelow(level, threshold) == level <= threshold

(* level < ref[...]: the band tests of the vitamin and mineral rules *)
Below(level, threshold) == level < threshold

analyze_vitamin_levels(lab) ==
  LET b12 ==
        IF Has(lab, "vitamin_b12_level")
        THEN LET level == lab.vitamin_b12_level
                 ref == LAB_REFERENCE_RANGES.vitamin_b12
             IN IF Below(level, ref.low)
                THEN << NutrientNeed("Vitamin B12", 1,
                           Reason("B12 level is deficient - urgent supplementation recommended", level, <<>>),
                           <<"B12", "MCV", "homocysteine">>) >>
                ELSE IF Below(level, ref.optimal_low)
                THEN << NutrientNeed("Vitamin B12", 2,
                           Reason("B12 level is suboptimal - dietary increase recommended", level, <<>>),
                           <<"B12">>) >>
                ELSE <<>>
        ELSE <<>>
      vitd ==
        IF Has(lab, "vitamin_d_level")
        THEN LET level == lab.vitamin_d_level
                 ref == LAB_REFERENCE_RANGES.vitamin_d
             IN IF Below(level, ref.low)
                THEN << NutrientNeed("Vitamin D", 1,
                           Reason("Vitamin D level is deficient - significant health impact", level, <<>>),
                           <<"25-OH Vitamin D", "calcium", "PTH">>) >>
                ELSE IF Below(level, ref.optimal_low)
                THEN << NutrientNeed("Vitamin D", 2,
                           Reason("Vitamin D level is insufficient", level, <<>>),
                           <<"25-OH Vitamin D">>) >>
                ELSE <<>>
        ELSE <<>>
      iron ==
        IF Has(lab, "iron_level")
        THEN LET level == lab.iron_level
                 ref == LAB_REFERENCE_RANGES.iron
             IN IF Below(level, ref.low)
                THEN << NutrientNeed("Iron", 1,
                           Reason("Iron level is low - may cause fatigue and anemia", level, <<>>),
                           <<"serum iron", "ferritin", "TIBC">>) >>
                ELSE <<>>
        ELSE <<>>
  IN b12 \o vitd \o iron

analyze_inflammation_markers(lab) ==
  LET crp ==
        IF Has(lab, "crp_level")
        THEN LET level == lab.crp_level
                 ref == LAB_REFERENCE_RANGES.crp
                 priority == IF level > ref.high THEN 1 ELSE 2
             IN IF level > ref.elevated
                THEN << NutrientNeed("Anti-inflammatory Foods", priority,
                           Reason("CRP level indicates systemic inflammation", level, <<>>),
                           <<"CRP", "ESR", "inflammation">>),
                        NutrientNeed("Omega-3 Fatty Acids", priority,
                           Reason("Omega-3s help reduce inflammation markers like CRP", level, <<>>),
                           <<"CRP", "omega-3 index">>) >>
                ELSE <<>>
        ELSE <<>>
      homocysteine ==
        IF Has(lab, "homocysteine_level")
        THEN LET level == lab.homocysteine_level
                 ref == LAB_REFERENCE_RANGES.homocysteine
                 priority == IF level > ref.high THEN 1 ELSE 2
             IN IF level > ref.elevated
                THEN << NutrientNeed("Methylfolate", priority,
                           Reason("Homocysteine is elevated - B vitamins help lower it", level, <<>>),
                           <<"homocysteine", "cardiovascular risk">>) >>
                ELSE <<>>
        ELSE <<>>
  IN crp \o homocysteine

analyze_metabolic_markers(lab) ==
  IF Has(lab, "glucose_fasting")
  THEN LET level == lab.glucose_fasting
           ref == LAB_REFERENCE_RANGES.glucose_fasting
           priority == IF level < ref.prediabetic THEN 2 ELSE 1
       IN IF level > ref.optimal_high
          THEN << NutrientNeed("Fiber", priority,
                     Reason("Fasting glucose elevated - fiber helps regulate blood sugar", level, <<>>),
                     <<"glucose", "HbA1c", "insulin">>),
                  NutrientNeed("Chromium", priority + 1,
                     Reason("Chromium supports glucose metabolism with elevated fasting glucose", level, <<>>),
                     <<"glucose", "insulin sensitivity">>) >>
          ELSE <<>>
  ELSE <<>>

(* symptom_nutrient_map, in declaration order *)
symptom_nutrient_map ==
  << [key |-> "fatigue", needs |->
        << NutrientNeed("Iron", 3,
              Reason("Fatigue reported - iron deficiency is a common cause", 0, <<>>),
              <<"symptoms: fatigue">>),
           NutrientNeed("Vitamin B12", 3,
              Reason("Fatigue reported - B12 supports energy metabolism", 0, <<>>),
              <<"symptoms: fatigue">>) >>],
     [key |-> "brain_fog", needs |->
        << NutrientNeed("Omega-3 Fatty Acids", 3,
              Reason("Brain fog reported - omega-3s support cognitive function", 0, <<>>),
              <<"symptoms: brain fog">>) >>],
     [key |-> "joint_pain", needs |->
        << NutrientNeed("Anti-inflammatory Foods", 3,
              Reason("Joint pain reported - anti-inflammatory foods may help", 0, <<>>),
              <<"symptoms: joint pain">>) >>],
     [key |-> "anxiety", needs |->
        << NutrientNeed("Magnesium", 3,
              Reason("Anxiety reported - magnesium supports nervous system calm", 0, <<>>),
              <<"symptoms: anxiety">>) >>],
     [key |-> "weak_immunity", needs |->
        << NutrientNeed("Vitamin D", 3,
              Reason("Immune concerns - Vitamin D is crucial for immune function", 0, <<>>),
              <<"symptoms: immunity">>) >>] >>

analyze_symptoms(medical) ==
  LET symptoms == [i \in 1..Len(medical.current_symptoms) |->
                     lower(Chars[medical.current_symptoms[i]])]
      map == symptom_nutrient_map
      ForSymptom(symptom) ==
        Flatten([k \in 1..Len(map) |->
                   IF Contains(symptom, Chars[map[k].key]) THEN map[k].needs ELSE <<>>])
  IN Flatten([i \in 1..Len(symptoms) |-> ForSymptom(symptoms[i])])

(* a Fiber recommendation emitted for every profile *)
BaselineFiber(medical) ==
  << NutrientNeed("Fiber", 4,
        Reason("Family history of diabetes - fiber helps maintain healthy blood sugar", 0, <<>>),
        <<"family history: diabetes">>) >>

analyze_family_history(medical) ==
  LET history == [i \in 1..Len(medical.family_history) |->
                    lower(Chars[medical.family_history[i]])]
      AnyHas(word) == \E i \in 1..Len(history) : Contains(history[i], Chars[word])
      diabetes ==
        IF AnyHas("diabetes")
        THEN << NutrientNeed("Fiber", 4,
                   Reason("Family history of diabetes - fiber helps maintain healthy blood sugar", 0, <<>>),
                   <<"family history: diabetes">>),
                NutrientNeed("Chromium", 4,
                   Reason("Family history of diabetes - chromium supports glucose metabolism", 0, <<>>),
                   <<"family history: diabetes">>) >>
        ELSE <<>>
      heart ==
        IF AnyHas("heart") \/ AnyHas("cardiovascular")
        THEN << NutrientNeed("Omega-3 Fatty Acids", 4,
                   Reason("Family history of heart disease - omega-3s support cardiovascular health", 0, <<>>),
                   <<"family history: cardiovascular">>) >>
        ELSE <<>>
      cancer ==
        IF AnyHas("cancer")
        THEN << NutrientNeed("Antioxidants", 4,
                   Reason("Family history considerations - antioxidants support cellular health", 0, <<>>),
                   <<"family history: cancer">>) >>
        ELSE <<>>
  IN diabetes \o heart \o cancer

(* list(set(xs)): the elements of xs without repetition, in the iteration   *)
(* order of a set of str.  That order follows the strings' hashes, which    *)
(* CPython salts per process (PYTHONHASHSEED), so it is fixed within a      *)
(* process and differs between processes.  hash_seed stands for the salt.   *)
MarkerTags ==
  << "MTHFR", "homocysteine", "methylation", "BH4", "COMT", "catecholamines",
     "B12", "MCV", "25-OH Vitamin D", "calcium", "PTH", "serum iron", "ferritin",
     "TIBC", "CRP", "ESR", "inflammation", "omega-3 index", "cardiovascular risk",
     "glucose", "HbA1c", "insulin", "insulin sensitivity", "symptoms: fatigue",
     "symptoms: brain fog", "symptoms: joint pain", "symptoms: anxiety",
     "symptoms: immunity", "family history: diabetes",
     "family history: cardiovascular", "family history: cancer" >>

StrHash(hash_seed, s) ==
  ((CHOOSE i \in 1..Len(MarkerTags) : MarkerTags[i] = s) * (hash_seed + 1)) % 37

ListOfSet(xs, hash_seed) ==
  LET S == Range(xs)
  IN [r \in 1..Cardinality(S) |->
        CHOOSE m \in S :
          Cardinality({x \in S : StrHash(hash_seed, x) < StrHash(hash_seed, m)}) = r - 1]

(* any(allergy in name.lower() for allergy in allergies), allergies lowered *)
ConflictsWithAllergies(name, known_allergies) ==
  \E i \in 1..Len(known_allergies) :
     Contains(lower(Chars[name]), lower(Chars[known_allergies[i]]))

(* sources removed from the list while a loop walks it by index: the entry  *)
(* after a removed one is stepped over                                      *)
RECURSIVE RemoveWhileWalking(_, _, _)
RemoveWhileWalking(food_sources, i, known_allergies) ==
  IF i > Len(food_sources) THEN food_sources
  ELSE IF ConflictsWithAllergies(food_sources[i], known_allergies)
       THEN RemoveWhileWalking(SubSeq(food_sources, 1, i - 1)
                                 \o SubSeq(food_sources, i + 1, Len(food_sources)),
                               i + 1, known_allergies)
       ELSE RemoveWhileWalking(food_sources, i + 1, known_allergies)

FilterInPlace(food_sources, known_allergies) ==
  RemoveWhileWalking(food_sources, 1, known_allergies)

(* bio_analyzer.py:452-455 *)
FilterFoodSources(food_sources, known_allergies) ==
  SelectSeq(food_sources, LAMBDA source : ~ConflictsWithAllergies(source, known_allergies))

(* nutrient_map is a dict: insertion-ordered, assignment to a present key   *)
(* keeps the key's position.  It is the sequence of its values.             *)
MergeNeed(nutrient_map, need, hash_seed) ==
  IF \E k \in 1..Len(nutrient_map) : nutrient_map[k].nutrient = need.nutrient
  THEN LET k == CHOOSE j \in 1..Len(nutrient_map) : nutrient_map[j].nutrient = need.nutrient
           existing == nutrient_map[k]
           combined_markers == ListOfSet(existing.related_markers \o need.related_markers, hash_seed)
       IN IF need.priority < existing.priority
          THEN [nutrient_map EXCEPT ![k] =
                  [nutrient |-> need.nutrient,
                   priority |-> need.priority,
                   reason |-> need.reason \o existing.reason,
                   related_markers |-> combined_markers,
                   food_sources |-> need.food_sources]]
          ELSE [nutrient_map EXCEPT ![k].related_markers = combined_markers]
  ELSE Append(nutrient_map, need)

RECURSIVE ConsolidateFrom(_, _, _)
ConsolidateFrom(nutrient_map, all_needs, hash_seed) ==
  IF Len(all_needs) = 0 THEN nutrient_map
  ELSE ConsolidateFrom(MergeNeed(nutrient_map, Head(all_needs), hash_seed),
                       Tail(all_needs), hash_seed)

consolidate_nutrient_needs(all_needs, hash_seed) ==
  ConsolidateFrom(<<>>, all_needs, hash_seed)

(* the needs left in the order the rules emitted them *)
UnsortedNeeds(needs) == needs

(* list.sort(key=lambda x: x.priority) / sorted(..., key=lambda x: x.priority) *)
SortByPriority(needs) ==
  StableSort(needs, [i \in 1..Len(needs) |-> <<needs[i].priority>>])

Warning(text, nutrient) == [text |-> text, nutrient |-> nutrient]

(* bio_analyzer.py:432-447: what the rule battery emits, in rule order *)
all_needs(user_context) ==
  LET lab_results == user_context.lab_results
      medical == user_context.medical
      lab_needs ==
        IF ~IsNone(lab_results)
        THEN analyze_methylation_markers(Val(lab_results))
             \o analyze_vitamin_levels(Val(lab_results))
             \o analyze_inflammation_markers(Val(lab_results))
             \o analyze_metabolic_markers(Val(lab_results))
        ELSE <<>>
  IN lab_needs \o analyze_symptoms(medical) \o analyze_family_history(medical)

analyze_lab_data(user_context, hash_seed) ==
  LET lab_results == user_context.lab_results
      medical == user_context.medical
      lab_warnings ==
        IF ~IsNone(lab_results) THEN <<>>
        ELSE << Warning("No lab results provided - recommendations based on symptoms and history only", "") >>
      needs == all_needs(user_context)
      filtered_needs ==
        [i \in 1..Len(needs) |->
           [needs[i] EXCEPT
              !.food_sources = FilterFoodSources(needs[i].food_sources, medical.known_allergies)]]
      allergy_warnings ==
        Flatten([i \in 1..Len(filtered_needs) |->
                   IF Len(filtered_needs[i].food_sources) = 0
                   THEN << Warning("Limited food sources due to allergies", filtered_needs[i].nutrient) >>
                   ELSE <<>>])
      consolidated_needs == consolidate_nutrient_needs(filtered_needs, hash_seed)
  IN [needs |-> SortByPriority(consolidated_needs),
      warnings |-> lab_warnings \o allergy_warnings]

(* NutrientPriorityList.get_top_priorities *)
(* every need of the list, whatever n *)
AllPriorities(priority_list, n) == SortByPriority(priority_list.needs)

get_top_priorities(priority_list, n) ==
  LET sorted_needs == SortByPriority(priority_list.needs)
  IN SubSeq(sorted_needs, 1, IF Len(sorted_needs) < n THEN Len(sorted_needs) ELSE n)

-----------------------------------------------------------------------------
(* user_context *)

(* Financials.budget_tier; weekly_budget in cents *)
budget_tier(financials) ==
  IF financials.weekly_budget < 5000 THEN "very_low"
  ELSE IF financials.weekly_budget < 10000 THEN "low"
  ELSE IF financials.weekly_budget < 20000 THEN "moderate"
  ELSE "comfortable"

(* Financials.has_assistance *)
has_assistance(financials) == financials.snap_status \/ financials.wic_status

-----------------------------------------------------------------------------
(* resource_locator *)

(* the lookup extending the dict's own default list, with no copy of it *)
ExtendDefault(zip_code) ==
  LET zip_prefix == Prefix(Chars[zip_code], 3)
      db == SYNTHETIC_STORES_DATABASE
      default == IF "default" \in DOMAIN db THEN db["default"] ELSE <<>>
      extra == IF \E k \in DOMAIN db : Chars[k] = zip_prefix
               THEN db[CHOOSE k \in DOMAIN db : Chars[k] = zip_prefix]
               ELSE <<>>
  IN [stores |-> default \o extra,
      database |-> IF "default" \in DOMAIN db
                   THEN [db EXCEPT !["default"] = default \o extra] ELSE db]

(* The call's result and the dict as the call leaves it: list(...) copies    *)
(* the default list before extend(), so the dict is left as it was.          *)
get_stores_for_zip(zip_code) ==
  LET zip_prefix == Prefix(Chars[zip_code], 3)
      db == SYNTHETIC_STORES_DATABASE
      default == IF "default" \in DOMAIN db THEN db["default"] ELSE <<>>
      extra == IF \E k \in DOMAIN db : Chars[k] = zip_prefix
               THEN db[CHOOSE k \in DOMAIN db : Chars[k] = zip_prefix]
               ELSE <<>>
  IN [stores |-> default \o extra, database |-> db]

(* (distance, method) pairs, for distances up to 6.0 miles, at which the     *)
(* binary64 value of (distance_miles / speed) * 60 + overhead lies just      *)
(* below the integer that exact arithmetic gives, so that int() truncates    *)
(* to one minute less.                                                       *)
TruncatesShort ==
  {<<12, "walk">>, <<24, "walk">>, <<28, "walk">>, <<33, "walk">>,
   <<41, "walk">>, <<48, "walk">>, <<56, "walk">>}

calculate_travel_time(distance_miles, method) ==
  LET speeds == [walk |-> 3, transit |-> 12, drive |-> 25]
      speed == IF method \in DOMAIN speeds THEN speeds[method] ELSE 3
      overhead == IF method = "transit" THEN 10 ELSE IF method = "walk" THEN 5 ELSE 0
      exact == ((distance_miles * 60) \div (10 * speed)) + overhead
  IN IF <<distance_miles, method>> \in TruncatesShort THEN exact - 1 ELSE exact

(* Inputs <<distance, max_practical_distance, travel_time, inventory tenths>> *)
(* of the catalog's stores at which the exact score lies half-way between    *)
(* two hundredths and round(binary64 score, 2) gives the upper one; at the   *)
(* other half-way inputs it gives the lower one.                             *)
HalfRoundsUp ==
  {<<5, 2, 15, 4>>, <<8, 2, 21, 7>>, <<8, 8, 21, 7>>, <<10, 2, 25, 10>>,
   <<10, 8, 15, 10>>, <<15, 15, 35, 7>>, <<21, 8, 20, 10>>, <<25, 2, 55, 10>>}

(* round(distance_score * 0.4 + time_score * 0.3 + inventory_score * 0.3, 2) *)
(* in hundredths; the sum is computed in 1/6000ths.                          *)
accessibility_score(distance_miles, max_practical_distance, travel_time, inventory_level) ==
  LET inventory_score == [high |-> 10, medium |-> 7, low |-> 4][inventory_level]
      distance_part == Max0((2400 * (10 * max_practical_distance - distance_miles))
                              \div (10 * max_practical_distance))
      time_part == Max0(30 * (60 - travel_time))
      total == distance_part + time_part + 180 * inventory_score
  IN IF total % 60 = 30
     THEN (total \div 60)
          + (IF <<distance_miles, max_practical_distance, travel_time, inventory_score>>
                  \in HalfRoundsUp THEN 1 ELSE 0)
     ELSE (total + 30) \div 60

(* every store within the travel limit reached on foot *)
OnFoot(logistics) == "walk"

(* resource_locator.py:255-263: the mode of a store within the travel limit *)
preferred_method(logistics) ==
  IF logistics.has_vehicle THEN "drive"
  ELSE IF logistics.has_public_transit THEN "transit" ELSE "walk"

(* no store taken to be within walking distance *)
TooFarToWalk(store) == FALSE

(* resource_locator.py:264: store.distance_miles <= 2.0, in tenths of a mile *)
WalkingDistance(store) == store.distance_miles <= 20

(* any number of weekly trips taken to be enough *)
AnyTrips(logistics) == TRUE

(* resource_locator.py:291: logistics.grocery_trips_per_week >= 2 *)
EnoughTrips(logistics) == logistics.grocery_trips_per_week >= 2

calculate_travel_feasibility(store, logistics) ==
  LET max_practical_distance ==
        IF logistics.has_vehicle THEN 15
        ELSE IF logistics.has_public_transit THEN 8 ELSE 2
      within_max == store.distance_miles <= logistics.max_travel_distance_miles
      walkable == ~within_max /\ WalkingDistance(store)
      by_transit == ~within_max /\ ~walkable
                    /\ store.distance_miles <= 80 /\ logistics.has_public_transit
      travel_method ==
        IF walkable THEN "walk" ELSE IF by_transit THEN "transit"
        ELSE preferred_method(logistics)
      reachable == within_max \/ walkable \/ by_transit
      travel_time == calculate_travel_time(store.distance_miles, travel_method)
      notes ==
        (IF walkable THEN <<"Walking distance">> ELSE <<>>)
        \o (IF by_transit THEN <<"Accessible via public transit">> ELSE <<>>)
        \o (IF store.store_type = "food_pantry" THEN <<"FREE - Food pantry">> ELSE <<>>)
        \o (IF store.distance_miles <= 10 THEN <<"Very close">> ELSE <<>>)
        \o (IF travel_time > 45 THEN <<"Long travel time">> ELSE <<>>)
  IN [store |-> store,
      is_accessible |->
        IF travel_time > 45
        THEN reachable /\ EnoughTrips(logistics)
        ELSE reachable,
      travel_method |-> travel_method,
      estimated_time_minutes |-> travel_time,
      accessibility_score |->
        accessibility_score(store.distance_miles, max_practical_distance,
                            travel_time, store.inventory_level),
      notes |-> notes]

(* the stores ranked by distance alone *)
NearestFirst(feasibility) == <<feasibility.store.distance_miles>>

(* key=lambda x: (-x.accessibility_score, x.store.distance_miles) *)
RankKey(feasibility) ==
  <<0 - feasibility.accessibility_score, feasibility.store.distance_miles>>

resource_locator(user_context) ==
  LET all_stores == get_stores_for_zip(user_context.logistics.zip_code).stores
      all_feasibility ==
        [i \in 1..Len(all_stores) |->
           calculate_travel_feasibility(all_stores[i], user_context.logistics)]
      accessible == SelectSeq(all_feasibility, LAMBDA f : f.is_accessible)
      accessible_stores ==
        StableSort(accessible, [i \in 1..Len(accessible) |-> RankKey(accessible[i])])
      food_pantries ==
        SelectSeq(accessible_stores, LAMBDA f : f.store.store_type = "food_pantry")
      snap ==
        SelectSeq(accessible_stores, LAMBDA f : f.store.snap_accepted)
      snap_stores ==
        IF has_assistance(user_context.financials)
        THEN StableSort(snap, [i \in 1..Len(snap) |->
                                 <<snap[i].store.price_tier, snap[i].store.distance_miles>>])
        ELSE snap
  IN [user_zip |-> user_context.logistics.zip_code,
      accessible_stores |-> accessible_stores,
      food_pantries |-> food_pantries,
      snap_stores |-> snap_stores,
      all_stores |-> all_stores]

-----------------------------------------------------------------------------
(* shopping_planner *)

ShoppingPriorityValue == [CRITICAL |-> 1, HIGH |-> 2, MODERATE |-> 3, OPTIONAL |-> 4]

LogLine(text, a, b, n) == [text |-> text, a |-> a, b |-> b, n |-> n]

(* the matching foods in declaration order, not sorted by price *)
FoodsAsDeclared(nutrient) ==
  LET entries == SelectSeq(FOOD_DATABASE,
                           LAMBDA e : nutrient \in Range(e.food.nutrients_provided))
  IN [i \in 1..Len(entries) |-> entries[i].food]

(* FOOD_DATABASE.values() filtered, then sorted(..., key=price): stable, so  *)
(* equal prices stay in declaration order.                                   *)
get_foods_for_nutrient(nutrient) ==
  LET entries == SelectSeq(FOOD_DATABASE,
                           LAMBDA e : nutrient \in Range(e.food.nutrients_provided))
      matching_foods == [i \in 1..Len(entries) |-> entries[i].food]
  IN StableSort(matching_foods,
                [i \in 1..Len(matching_foods) |-> <<matching_foods[i].price_estimate>>])

(* the mapping made to lift every item of a low or very low budget to the    *)
(* top tier                                                                  *)
PriorityByTier(nutrient_priority, tier) ==
  IF tier \in {"very_low", "low"} \/ nutrient_priority = 1 THEN "CRITICAL"
  ELSE IF nutrient_priority = 2 THEN "HIGH"
  ELSE IF nutrient_priority <= 3 THEN "MODERATE"
  ELSE "OPTIONAL"

calculate_priority(nutrient_priority, tier) ==
  IF nutrient_priority = 1 THEN "CRITICAL"
  ELSE IF nutrient_priority = 2 THEN "HIGH"
  ELSE IF nutrient_priority <= 3 THEN "MODERATE"
  ELSE "OPTIONAL"

(* FOOD_DATABASE[key] / FOOD_DATABASE.get(key) *)
HasFoodKey(key) == \E i \in 1..Len(FOOD_DATABASE) : FOOD_DATABASE[i].key = key
FoodByKey(key) == FOOD_DATABASE[CHOOSE i \in 1..Len(FOOD_DATABASE) : FOOD_DATABASE[i].key = key].food

(* shopping_planner.py:256-261: the candidate the loop goes on with *)
BudgetCandidate(food, tier) ==
  LET food_key == SelectSeq(FOOD_DATABASE, LAMBDA e : e.food.name = food.name)
      alt_key == BUDGET_ALTERNATIVES[food_key[1].key]
  IN IF tier \in {"very_low", "low"} /\ Len(food_key) > 0
        /\ food_key[1].key \in DOMAIN BUDGET_ALTERNATIVES
        /\ HasFoodKey(alt_key)
     THEN FoodByKey(alt_key)
     ELSE food

(* the candidates with no allergy check *)
AllOptions(food_options, known_allergies) == food_options

(* shopping_planner.py:244-247 *)
SafeOptions(food_options, known_allergies) ==
  SelectSeq(food_options, LAMBDA f : ~ConflictsWithAllergies(f.name, known_allergies))

(* shopping_planner.py:254-274 *)
SelectFood(safe_options, user_context, remaining_budget) ==
  LET tier == budget_tier(user_context.financials)
      Cand(i) == BudgetCandidate(safe_options[i], tier)
      Takes(i) == /\ Cand(i).price_estimate <= remaining_budget
                  /\ ~(user_context.financials.snap_status /\ ~Cand(i).snap_eligible)
  IN IF \E i \in 1..Len(safe_options) : Takes(i)
     THEN Cand(CHOOSE i \in 1..Len(safe_options) :
                 Takes(i) /\ \A j \in 1..(i - 1) : ~Takes(j))
     ELSE safe_options[1]

(* the top-ranked accessible store, whatever it accepts and stocks *)
TopStore(user_context, resource_map) ==
  IF Len(resource_map.accessible_stores) > 0
  THEN Some(resource_map.accessible_stores[1].store.name)
  ELSE NoneVal

(* shopping_planner.py:277-283 *)
BestStore(user_context, resource_map) ==
  LET stores == resource_map.accessible_stores
      Fits(i) == /\ ~(user_context.financials.snap_status /\ ~stores[i].store.snap_accepted)
                 /\ stores[i].store.inventory_level # "low"
  IN IF \E i \in 1..Len(stores) : Fits(i)
     THEN Some(stores[CHOOSE i \in 1..Len(stores) :
                        Fits(i) /\ \A j \in 1..(i - 1) : ~Fits(j)].store.name)
     ELSE NoneVal

ShoppingListItem(food, priority, reason, suggested_store, nutrients_addressed) ==
  [food |-> food, quantity |-> 1, priority |-> priority, reason |-> reason,
   suggested_store |-> suggested_store, estimated_cost |-> food.price_estimate,
   nutrients_addressed |-> nutrients_addressed]

(* the remaining budget held at zero once an item costs more than is left *)
DeductClamped(remaining_budget, food) == Max0(remaining_budget - food.price_estimate)

(* remaining_budget -= food.price_estimate *)
Deduct(remaining_budget, food) == remaining_budget - food.price_estimate

(* the list taken never to hold the food yet *)
NotListed(items, name) == FALSE

HasFood(items, name) == \E i \in 1..Len(items) : items[i].food.name = name

(* shopping_planner.py:205 *)
PantryFirst(user_context, resource_map) ==
  /\ budget_tier(user_context.financials) \in {"very_low", "low"}
  /\ Len(resource_map.food_pantries) > 0

pantry_foods == <<"bread", "canned goods", "produce">>

(* f"Pantry: {pf.title()}" *)
PantryFoodName == ("bread" :> "Pantry: Bread") @@ ("canned goods" :> "Pantry: Canned Goods")
                  @@ ("produce" :> "Pantry: Produce")

(* shopping_planner.py:218-228 *)
PantryItems(pantry) ==
  LET tags == Range(pantry.store.specialty_items)
      Placeholder(pf) ==
        [food |-> [name |-> PantryFoodName[pf], category |-> "pantry", price_estimate |-> 0,
                   snap_eligible |-> FALSE, wic_eligible |-> FALSE, nutrients_provided |-> <<>>],
         quantity |-> 1, priority |-> "HIGH", reason |-> <<"Available FREE at food pantry">>,
         suggested_store |-> Some(pantry.store.name), estimated_cost |-> 0,
         nutrients_addressed |-> <<>>]
  IN Flatten([i \in 1..Len(pantry_foods) |->
                IF pantry_foods[i] \in tags \/ "produce" \in tags
                THEN << Placeholder(pantry_foods[i]) >> ELSE <<>>])

(* generate_shopping_list up to the loop over top_needs (lines 189-228).     *)
(* run is the record of the call's locals; pc "error" is a raised exception. *)
BeginShoppingList(run) ==
  LET user_context == run.user_context
      resource_map == run.resource_map
      budget == user_context.financials.weekly_budget
      top_needs == get_top_priorities(run.priority_list, 8)
      reasoning == << LogLine("Budget tier", budget_tier(user_context.financials), "", budget),
                      LogLine("Top nutrient priorities identified", "", "", Len(top_needs)) >>
      pantry == resource_map.food_pantries[1]
      started == [run EXCEPT
                    !.top_needs = top_needs,
                    !.need_index = 1,
                    !.staple_index = 1,
                    !.remaining_budget = budget,
                    !.reasoning = reasoning,
                    !.pc = IF Len(top_needs) = 0 THEN "phase3" ELSE "phase2"]
  IN IF ~PantryFirst(user_context, resource_map) THEN started
     ELSE [started EXCEPT
             !.reasoning = Append(reasoning,
                 LogLine("LOW BUDGET: Recommending food pantry as primary resource", "", "", 0)),
             !.shopping_list.reasoning_log =
                 << LogLine("RECOMMENDATION: Visit first (FREE)", pantry.store.name,
                            pantry.store.hours, 0) >>,
             !.shopping_list.pantry_items = PantryItems(pantry)]

(* the budget taken to be exhausted only once it is overdrawn *)
Overdrawn(remaining_budget) == remaining_budget < 0

(* shopping_planner.py:232: if remaining_budget <= 0 *)
Exhausted(remaining_budget) == remaining_budget <= 0

(* the list of safe options taken never to be empty *)
NeverEmpty(options) == FALSE

(* shopping_planner.py:249: if not safe_options *)
EmptyOptions(options) == Len(options) = 0

(* One iteration of the loop over top_needs (lines 231-322), for             *)
(* need = top_needs[need_index].                                             *)
SelectForNeed(run) ==
  LET user_context == run.user_context
      need == run.top_needs[run.need_index]
      remaining_budget == run.remaining_budget
      items == run.shopping_list.items
      food_options == get_foods_for_nutrient(need.nutrient)
      safe_options == SafeOptions(food_options, user_context.medical.known_allergies)
      selected_food == SelectFood(safe_options, user_context, remaining_budget)
      best_store == BestStore(user_context, run.resource_map)
      priority == calculate_priority(need.priority, budget_tier(user_context.financials))
      item == ShoppingListItem(selected_food, priority,
                               <<"Addresses", need.nutrient>>, best_store, <<need.nutrient>>)
      k == CHOOSE i \in 1..Len(items) :
             /\ items[i].food.name = selected_food.name
             /\ \A j \in 1..(i - 1) : items[j].food.name # selected_food.name
      next == [run EXCEPT
                 !.need_index = run.need_index + 1,
                 !.pc = IF run.need_index + 1 > Len(run.top_needs) THEN "phase3" ELSE "phase2"]
      Skip(text) == [next EXCEPT !.reasoning = Append(run.reasoning, LogLine(text, need.nutrient, "", 0))]
  IN IF Exhausted(remaining_budget) THEN Skip("BUDGET EXHAUSTED: Skipping")
     ELSE IF Len(food_options) = 0 THEN Skip("No foods found for")
     ELSE IF EmptyOptions(safe_options) THEN Skip("All foods conflict with allergies")
     ELSE IF Len(safe_options) = 0 THEN [run EXCEPT !.pc = "error"]
     ELSE IF ~HasFood(items, selected_food.name)
     THEN [next EXCEPT
             !.shopping_list.items = Append(items, item),
             !.remaining_budget = Deduct(remaining_budget, selected_food),
             !.reasoning = Append(run.reasoning,
                 LogLine("Added", selected_food.name, need.nutrient, need.priority))]
     ELSE IF need.nutrient \in Range(items[k].nutrients_addressed) THEN next
     ELSE [next EXCEPT
             !.shopping_list.items[k].nutrients_addressed =
                 Append(items[k].nutrients_addressed, need.nutrient)]

(* the staple loop taken to stop only when nothing is left *)
NothingLeft(remaining_budget) == remaining_budget <= 0

(* shopping_planner.py:328: if remaining_budget <= 2, in cents *)
TooLittleLeft(remaining_budget) == remaining_budget <= 200

(* every staple taken to be affordable *)
AnyPrice(staple, remaining_budget) == TRUE

(* shopping_planner.py:337: staple.price_estimate <= remaining_budget *)
Affordable(staple, remaining_budget) == staple.price_estimate <= remaining_budget

staples == <<"oats", "brown_rice", "black_beans_canned", "bananas", "peanut_butter">>

(* One iteration of the loop over staples (lines 327-346), for               *)
(* staple_key = staples[staple_index]; the break ends the loop.              *)
FillStaple(run) ==
  LET staple_key == staples[run.staple_index]
      staple == FoodByKey(staple_key)
      items == run.shopping_list.items
      remaining_budget == run.remaining_budget
      next == [run EXCEPT
                 !.staple_index = run.staple_index + 1,
                 !.pc = IF run.staple_index + 1 > Len(staples) THEN "totals" ELSE "phase3"]
  IN IF TooLittleLeft(remaining_budget) THEN [run EXCEPT !.pc = "totals"]
     ELSE IF ~HasFoodKey(staple_key) THEN next
     ELSE IF ~HasFood(items, staple.name) /\ Affordable(staple, remaining_budget)
     THEN [next EXCEPT
             !.shopping_list.items =
                 Append(items, ShoppingListItem(staple, "OPTIONAL",
                          <<"Budget-friendly staple for general nutrition">>, NoneVal, <<>>)),
             !.remaining_budget = Deduct(remaining_budget, staple),
             !.reasoning = Append(run.reasoning, LogLine("Added staple", staple.name, "", 0))]
     ELSE next

(* store_visits: a dict store -> items, in order of first appearance *)
RECURSIVE GroupByStore(_, _)
GroupByStore(visits, items) ==
  IF Len(items) = 0 THEN visits
  ELSE LET item == Head(items)
           store == IF IsNone(item.suggested_store) THEN "Any Store"
                    ELSE Val(item.suggested_store)
       IN IF \E g \in 1..Len(visits) : visits[g].store = store
          THEN LET g == CHOOSE h \in 1..Len(visits) : visits[h].store = store
               IN GroupByStore([visits EXCEPT ![g].items = Append(visits[g].items, item)],
                               Tail(items))
          ELSE GroupByStore(Append(visits, [store |-> store, items |-> <<item>>]), Tail(items))

(* the items sorted with the OPTIONAL ones first *)
OptionalFirst(items) ==
  StableSort(items, [i \in 1..Len(items) |-> <<0 - ShoppingPriorityValue[items[i].priority]>>])

(* shopping_list.items.sort(key=lambda x: x.priority.value) *)
SortItems(items) ==
  StableSort(items, [i \in 1..Len(items) |-> <<ShoppingPriorityValue[items[i].priority]>>])

(* generate_shopping_list from "Calculate totals" to the return (348-363) *)
FinishShoppingList(run) ==
  LET items == run.shopping_list.items
  IN [run EXCEPT
        !.shopping_list.total_estimated_cost =
            SumSeq([i \in 1..Len(items) |-> items[i].estimated_cost]),
        !.shopping_list.budget_remaining = run.remaining_budget,
        !.shopping_list.reasoning_log = run.shopping_list.reasoning_log \o run.reasoning,
        !.shopping_list.store_visits = GroupByStore(<<>>, items),
        !.shopping_list.items = SortItems(items),
        !.pc = "done"]

-----------------------------------------------------------------------------
(* Profiles: the inputs of the pipeline *)

MaxLabFields == 2
MaxHashSeed == 1

HashSeeds == 0..MaxHashSeed

LabFields ==
  << "mthfr_variant", "comt_variant", "vitamin_b12_level", "vitamin_d_level",
     "iron_level", "crp_level", "homocysteine_level", "glucose_fasting" >>

LabValues ==
  [mthfr_variant |-> {"C677T", "A1298C", "Compound"},
   comt_variant |-> {"Slow", "fast"},
   vitamin_b12_level |-> {280, 300, 499, 500},
   vitamin_d_level |-> {18, 30, 45},
   iron_level |-> {50, 70},
   crp_level |-> {5, 35, 110},
   homocysteine_level |-> {50, 140, 160},
   glucose_fasting |-> {90, 105, 125, 130}]

(* LabResults with every field None *)
EmptyLab == [f \in {} |-> 0]

RECURSIVE LabsOver(_)
LabsOver(fields) ==
  IF Len(fields) = 0 THEN {EmptyLab}
  ELSE LET rest == LabsOver(Tail(fields))
       IN rest \cup {(Head(fields) :> v) @@ l : v \in LabValues[Head(fields)],
                       l \in {x \in rest : Cardinality(DOMAIN x) < MaxLabFields}}

(* create_sample_user's lab record, user_context.py:221-229 *)
SampleLab ==
  [mthfr_variant |-> "C677T", vitamin_b12_level |-> 280, vitamin_d_level |-> 18,
   iron_level |-> 50, crp_level |-> 35, homocysteine_level |-> 140, glucose_fasting |-> 105]

SymptomLists ==
  { <<>>, <<"fatigue">>, <<"weak_immunity">>, <<"fatigue", "brain_fog">>,
    <<"Fatigue", "brain_fog", "joint_pain", "anxiety", "weak_immunity", "poor_sleep">> }

FamilyLists ==
  { <<>>, <<"diabetes", "hypertension">>, <<"diabetes", "heart_disease", "cancer">> }

AllergyLists ==
  { <<>>, <<"shellfish">>, <<"Sardines">>, <<"broccoli">>,
    <<"fortified", "egg", "salmon", "sardines", "mushrooms">>,
    <<"broccoli", "grape", "grain", "beef", "bean", "potato">> }

Budgets == {0, 50, 500, 4000, 6000, 15000}

MaxDistances == {0, 10, 20, 50, 80, 150}

ZipCodes == {"30312", "00000", "30"}

Financials(weekly_budget, snap_status, wic_status) ==
  [weekly_budget |-> weekly_budget, snap_status |-> snap_status, wic_status |-> wic_status]

Logistics(zip_code, has_vehicle, has_public_transit, trips, max_distance) ==
  [zip_code |-> zip_code, has_vehicle |-> has_vehicle,
   has_public_transit |-> has_public_transit,
   grocery_trips_per_week |-> trips, max_travel_distance_miles |-> max_distance]

MedicalHistory(family_history, current_symptoms, known_allergies) ==
  [family_history |-> family_history, current_symptoms |-> current_symptoms,
   known_allergies |-> known_allergies]

UserContext(financials, logistics, medical, lab_results) ==
  [financials |-> financials, logistics |-> logistics, medical |-> medical,
   lab_results |-> lab_results]

(* create_sample_user's logistics and medical history *)
SampleLogistics == Logistics("30312", FALSE, TRUE, 2, 50)
SampleMedical == MedicalHistory(<<"diabetes", "hypertension">>, <<"fatigue", "brain_fog">>,
                                <<"shellfish">>)

(* lab records of up to MaxLabFields fields, few tags *)
LabProfiles ==
  { UserContext(Financials(b, FALSE, FALSE), SampleLogistics,
                MedicalHistory(<<>>, s, <<>>), Some(lab)) :
      b \in {6000, 15000}, s \in {<<>>, <<"fatigue">>}, lab \in LabsOver(LabFields) }

(* tags, allergies and budgets, with no lab record or the sample one *)
MedicalProfiles ==
  { UserContext(Financials(b, snap, FALSE), SampleLogistics,
                MedicalHistory(fam, sym, al), lab) :
      b \in Budgets, snap \in BOOLEAN, fam \in FamilyLists, sym \in SymptomLists,
      al \in AllergyLists, lab \in {NoneVal, Some(SampleLab)} }

(* mobility, location and benefit flags *)
LogisticsProfiles ==
  { UserContext(Financials(b, snap, wic), Logistics(z, veh, tr, trips, d),
                MedicalHistory(<<>>, <<"fatigue">>, <<>>), NoneVal) :
      b \in {4000, 6000, 15000}, snap \in BOOLEAN, wic \in BOOLEAN, z \in ZipCodes,
      veh \in BOOLEAN, tr \in BOOLEAN, trips \in {1, 2}, d \in MaxDistances }

Profiles == LabProfiles \cup MedicalProfiles \cup LogisticsProfiles

-----------------------------------------------------------------------------
(* The pipeline runs.  main.run_full_analysis calls the three stages in      *)
(* order; the two loops of generate_shopping_list advance one iteration per  *)
(* step.                                                                     *)

RunIds == {1, 2}

EmptyShoppingList ==
  [items |-> <<>>, total_estimated_cost |-> 0, budget_remaining |-> 0,
   pantry_items |-> <<>>, store_visits |-> <<>>, reasoning_log |-> <<>>]

NewRun(user_context) ==
  [pc |-> "start",
   user_context |-> user_context,
   priority_list |-> [needs |-> <<>>, warnings |-> <<>>],
   resource_map |-> [user_zip |-> "", accessible_stores |-> <<>>, food_pantries |-> <<>>,
                     snap_stores |-> <<>>, all_stores |-> <<>>],
   top_needs |-> <<>>, need_index |-> 0, staple_index |-> 0,
   remaining_budget |-> 0, reasoning |-> <<>>,
   shopping_list |-> EmptyShoppingList]

NoRun == [NewRun(UserContext(Financials(0, FALSE, FALSE), SampleLogistics,
                             MedicalHistory(<<>>, <<>>, <<>>), NoneVal))
            EXCEPT !.pc = "idle"]

CatalogsInit ==
  /\ NUTRIENT_FOOD_SOURCES = NutrientFoodSourcesCatalog
  /\ LAB_REFERENCE_RANGES = LabReferenceRangesCatalog
  /\ SYNTHETIC_STORES_DATABASE = SyntheticStoresCatalog
  /\ FOOD_DATABASE = FoodCatalog
  /\ BUDGET_ALTERNATIVES = BudgetAlternativesCatalog

(* one request *)
Init ==
  /\ CatalogsInit
  /\ \E p \in Profiles : runs = [r \in RunIds |-> IF r = 1 THEN NewRun(p) ELSE NoRun]

Analyze(r) ==
  /\ runs[r].pc = "start"
  /\ \E hash_seed \in HashSeeds :
       runs' = [runs EXCEPT ![r] =
                  [runs[r] EXCEPT
                     !.priority_list = analyze_lab_data(runs[r].user_context, hash_seed),
                     !.pc = "analyzed"]]
  /\ UNCHANGED catalogs

Locate(r) ==
  /\ runs[r].pc = "analyzed"
  /\ runs' = [runs EXCEPT ![r] =
                [runs[r] EXCEPT
                   !.resource_map = resource_locator(runs[r].user_context),
                   !.pc = "located"]]
  /\ SYNTHETIC_STORES_DATABASE' =
       get_stores_for_zip(runs[r].user_context.logistics.zip_code).database
  /\ UNCHANGED <<NUTRIENT_FOOD_SOURCES, LAB_REFERENCE_RANGES, FOOD_DATABASE,
                 BUDGET_ALTERNATIVES>>

PlanBegin(r) ==
  /\ runs[r].pc = "located"
  /\ runs' = [runs EXCEPT ![r] = BeginShoppingList(runs[r])]
  /\ UNCHANGED catalogs

PlanNeed(r) ==
  /\ runs[r].pc = "phase2"
  /\ runs' = [runs EXCEPT ![r] = SelectForNeed(runs[r])]
  /\ UNCHANGED catalogs

PlanStaple(r) ==
  /\ runs[r].pc = "phase3"
  /\ runs' = [runs EXCEPT ![r] = FillStaple(runs[r])]
  /\ UNCHANGED catalogs

PlanFinish(r) ==
  /\ runs[r].pc = "totals"
  /\ runs' = [runs EXCEPT ![r] = FinishShoppingList(runs[r])]
  /\ UNCHANGED catalogs

Next ==
  \E r \in RunIds :
    \/ Analyze(r)
    \/ Locate(r)
    \/ PlanBegin(r)
    \/ PlanNeed(r)
    \/ PlanStaple(r)
    \/ PlanFinish(r)

Spec == Init /\ [][Next]_vars

-----------------------------------------------------------------------------
(* Two requests at once.  Each command-line invocation of main.py is its     *)
(* own interpreter process, so the two runs draw their string-hash salts     *)
(* separately; their steps interleave freely and they share the catalogs.    *)

PairLabs == { Some([mthfr_variant |-> "C677T", homocysteine_level |-> 140]) }

PairProfiles ==
  { UserContext(Financials(500, TRUE, FALSE), Logistics(z, veh, tr, trips, d),
                MedicalHistory(<<>>, <<"fatigue">>, <<"sardines">>), lab) :
      z \in {"30312"}, veh \in BOOLEAN, tr \in BOOLEAN, trips \in {1, 2},
      d \in {10, 20, 80}, lab \in PairLabs }

(* the same profile again, or the same profile with a larger travel limit *)
Companions(p) ==
  { [p EXCEPT !.logistics.max_travel_distance_miles = d2] :
      d2 \in {d \in MaxDistances : d >= p.logistics.max_travel_distance_miles} }

InitPair ==
  /\ CatalogsInit
  /\ \E p \in PairProfiles : \E q \in Companions(p) :
       runs = [r \in RunIds |-> IF r = 1 THEN NewRun(p) ELSE NewRun(q)]

SpecPair == InitPair /\ [][Next]_vars

-----------------------------------------------------------------------------
(* generate_shopping_list called on its own.  The resource map is its third  *)
(* parameter: the caller may hand in the locator's map or the map of an area *)
(* with fewer stores.                                                        *)

(* a resource map that lists only the stores named *)
Restrict(resource_map, names) ==
  [resource_map EXCEPT
     !.accessible_stores = SelectSeq(@, LAMBDA f : f.store.name \in names),
     !.food_pantries = SelectSeq(@, LAMBDA f : f.store.name \in names),
     !.snap_stores = SelectSeq(@, LAMBDA f : f.store.name \in names),
     !.all_stores = SelectSeq(@, LAMBDA store : store.name \in names)]

StoreNames ==
  UNION {{SyntheticStoresCatalog[region][i].name : i \in 1..Len(SyntheticStoresCatalog[region])} :
           region \in DOMAIN SyntheticStoresCatalog}

(* the resource map of an area whose food pantries hand out, of the goods   *)
(* the catalog lists for them, only those in stock                          *)
Stocked(resource_map, stock) ==
  LET Store(store) ==
        IF store.store_type = "food_pantry"
        THEN [store EXCEPT !.specialty_items = SelectSeq(@, LAMBDA tag : tag \in stock)]
        ELSE store
      Each(feasibilities) ==
        [i \in 1..Len(feasibilities) |->
           [feasibilities[i] EXCEPT !.store = Store(feasibilities[i].store)]]
  IN [resource_map EXCEPT
        !.accessible_stores = Each(@),
        !.food_pantries = Each(@),
        !.snap_stores = Each(@),
        !.all_stores = [i \in 1..Len(@) |-> Store(@[i])]]

SpecialtyTags ==
  UNION {UNION {Range(SyntheticStoresCatalog[region][i].specialty_items) :
                  i \in 1..Len(SyntheticStoresCatalog[region])} :
           region \in DOMAIN SyntheticStoresCatalog}

(* everything the catalog lists; produce only; bread only *)
PantryStocks == { SpecialtyTags, {"produce"}, {"bread"} }

(* every store; no store; one store that takes SNAP but is low on stock and  *)
(* two stocked ones that take no SNAP; the low-stock store alone             *)
StoreAreas ==
  { StoreNames, {},
    {"Dollar General", "Community Food Pantry", "Whole Health Foods"},
    {"Dollar General"} }

PlannerProfiles ==
  { UserContext(Financials(b, snap, FALSE), SampleLogistics,
                MedicalHistory(<<>>, sym, alg), lab) :
      b \in {0, 50, 260, 500, 4000, 15000}, snap \in BOOLEAN,
      sym \in {<<>>, <<"fatigue", "brain_fog">>},
      alg \in {<<>>, <<"broccoli", "grape", "grain", "beef", "bean", "potato">>},
      lab \in {NoneVal, Some([vitamin_b12_level |-> 280, glucose_fasting |-> 105])} }

(* the needs a caller may add to the analyzer's: none, or one for a         *)
(* nutrient that no food of the food database provides                      *)
CallerNeeds ==
  { <<>>,
    << [nutrient |-> "Zinc", priority |-> 2,
        reason |-> Reason("Requested by the caller", 0, ""),
        related_markers |-> <<>>, food_sources |-> <<>>] >> }

InitPlanner ==
  /\ CatalogsInit
  /\ \E p \in PlannerProfiles : runs = [r \in RunIds |-> IF r = 1 THEN NewRun(p) ELSE NoRun]

(* the caller builds the arguments of generate_shopping_list *)
Supply(r) ==
  /\ runs[r].pc = "start"
  /\ \E names \in StoreAreas : \E stock \in PantryStocks :
     \E hash_seed \in HashSeeds : \E extra \in CallerNeeds :
       runs' = [runs EXCEPT ![r] =
                  [runs[r] EXCEPT
                     !.priority_list =
                         [analyze_lab_data(runs[r].user_context, hash_seed)
                            EXCEPT !.needs = @ \o extra],
                     !.resource_map =
                         Stocked(Restrict(resource_locator(runs[r].user_context), names), stock),
                     !.pc = "located"]]
  /\ UNCHANGED catalogs

NextPlanner ==
  \E r \in RunIds :
    \/ Supply(r)
    \/ PlanBegin(r)
    \/ PlanNeed(r)
    \/ PlanStaple(r)
    \/ PlanFinish(r)

SpecPlanner == InitPlanner /\ [][NextPlanner]_vars

-----------------------------------------------------------------------------
(* Properties *)

Analyzed(r) == runs[r].pc \in {"analyzed", "located", "phase2", "phase3", "totals", "done"}
Located(r) == runs[r].pc \in {"located", "phase2", "phase3", "totals", "done"}
Done(r) == runs[r].pc = "done"

Allergies(r) == runs[r].user_context.medical.known_allergies
Needs(r) == runs[r].priority_list.needs
Items(r) == runs[r].shopping_list.items
NeedDriven(item) == Len(item.nutrients_addressed) > 0

(* a need whose markers come from the MTHFR rule and the homocysteine rule *)
MergedNeed(need) == {"MTHFR", "cardiovascular risk"} \subseteq Range(need.related_markers)

(* C1: in every NeedList analyze_lab_data returns no two entries have the   *)
(* same nutrient name, and the priorities never decrease along the list.    *)
C1_UniqueAndSorted ==
  \A r \in RunIds :
    Analyzed(r) =>
      /\ \A i, j \in 1..Len(Needs(r)) : i # j => Needs(r)[i].nutrient # Needs(r)[j].nutrient
      /\ \A i \in 1..(Len(Needs(r)) - 1) : Needs(r)[i].priority <= Needs(r)[i + 1].priority

(* A list in which two rules were merged into one entry and in which the    *)
(* sort moved the MTHFR A1298C entry, the first one the rules emit, behind  *)
(* an entry of higher priority.                                             *)
C1_Witness ==
  \E r \in RunIds :
    /\ Analyzed(r)
    /\ \E i, j \in 1..Len(Needs(r)) :
         /\ i < j
         /\ Needs(r)[j].nutrient = "Methylfolate"
         /\ "BH4" \in Range(Needs(r)[j].related_markers)
         /\ Needs(r)[i].priority < Needs(r)[j].priority
    /\ \E k \in 1..Len(Needs(r)) : Cardinality(Range(Needs(r)[k].related_markers)) >= 4

(* C2: in every returned plan total_estimated_cost is the sum of the items' *)
(* estimated costs (pantry placeholders apart) and budget_remaining is the  *)
(* weekly budget minus that total.                                          *)
C2_Totals ==
  \A r \in RunIds :
    Done(r) =>
      LET plan == runs[r].shopping_list
      IN /\ plan.total_estimated_cost =
              SumSeq([i \in 1..Len(plan.items) |-> plan.items[i].estimated_cost])
         /\ plan.budget_remaining =
              runs[r].user_context.financials.weekly_budget - plan.total_estimated_cost

(* A plan in which the fallback drove the budget below zero and in which a  *)
(* second need was merged into an item already on the list.                 *)
C2_Witness ==
  \E r \in RunIds :
    /\ Done(r)
    /\ runs[r].shopping_list.budget_remaining < 0
    /\ \E i \in 1..Len(Items(r)) : Len(Items(r)[i].nutrients_addressed) >= 2

Count(items, name) == Cardinality({i \in 1..Len(items) : items[i].food.name = name})

(* the nutrients the items of that name are listed for *)
AddressedBy(items, name) ==
  UNION {Range(items[i].nutrients_addressed) :
           i \in {k \in 1..Len(items) : items[k].food.name = name}}

CurrentNeed(run) == run.top_needs[run.need_index]

CurrentOptions(run) ==
  SafeOptions(get_foods_for_nutrient(CurrentNeed(run).nutrient),
              run.user_context.medical.known_allergies)

(* the loop body reaches the selection for the current need *)
Picks(run) ==
  /\ run.pc = "phase2"
  /\ run.remaining_budget > 0
  /\ Len(CurrentOptions(run)) > 0

PickedFood(run) == SelectFood(CurrentOptions(run), run.user_context, run.remaining_budget)

(* C3: no two items of a plan have the same food name, staples included;    *)
(* when a need selects a food, the plan holds exactly one item of that food *)
(* and the item lists the need's nutrient, and an item keeps every nutrient *)
(* it was listed for, so two needs selecting one food end in one item that  *)
(* names both.                                                              *)
C3_OneItemPerFood ==
  [][\A r \in RunIds :
       LET before == runs[r].shopping_list.items
           after == runs'[r].shopping_list.items
       IN /\ \A i, j \in 1..Len(after) : i # j => after[i].food.name # after[j].food.name
          /\ \A i \in 1..Len(before) :
               AddressedBy(before, before[i].food.name)
                 \subseteq AddressedBy(after, before[i].food.name)
          /\ (Picks(runs[r]) /\ runs'[r] # runs[r]) =>
               /\ Count(after, PickedFood(runs[r]).name) = 1
               /\ CurrentNeed(runs[r]).nutrient
                    \in AddressedBy(after, PickedFood(runs[r]).name)
    ]_vars

(* A returned plan with an item two needs selected and with a staple.       *)
C3_Witness ==
  \E r \in RunIds :
    /\ Done(r)
    /\ \E i \in 1..Len(Items(r)) : Len(Items(r)[i].nutrients_addressed) >= 2
    /\ \E i \in 1..Len(Items(r)) : ~NeedDriven(Items(r)[i])

(* C4: no item created for a nutrient need has a food name that contains,   *)
(* case-insensitively, one of the profile's allergen strings.               *)
C4_NoAllergenInNeedItems ==
  \A r \in RunIds :
    \A i \in 1..Len(Items(r)) :
      NeedDriven(Items(r)[i]) => ~ConflictsWithAllergies(Items(r)[i].food.name, Allergies(r))

SameButDistance(p, q) ==
  /\ [p EXCEPT !.logistics.max_travel_distance_miles =
                  q.logistics.max_travel_distance_miles] = q
  /\ p.logistics.max_travel_distance_miles <= q.logistics.max_travel_distance_miles

AccessibleNames(r) ==
  {runs[r].resource_map.accessible_stores[i].store.name :
     i \in 1..Len(runs[r].resource_map.accessible_stores)}

(* C5: of two profiles that differ only in the maximum travel distance,     *)
(* every store accessible under the smaller distance is accessible under    *)
(* the larger one.                                                          *)
C5_ReachabilityMonotonic ==
  \A r1, r2 \in RunIds :
    (Located(r1) /\ Located(r2)
       /\ SameButDistance(runs[r1].user_context, runs[r2].user_context))
      => AccessibleNames(r1) \subseteq AccessibleNames(r2)

(* Two located runs, the second with the larger distance and more stores,   *)
(* the first reaching a store by the walking fallback and the second one    *)
(* keeping a long trip by the several-trips rule.                           *)
C5_Witness ==
  /\ Located(1) /\ Located(2)
  /\ SameButDistance(runs[1].user_context, runs[2].user_context)
  /\ AccessibleNames(1) # AccessibleNames(2)
  /\ \E f \in Range(runs[1].resource_map.accessible_stores) :
       "Walking distance" \in Range(f.notes)
  /\ \E f \in Range(runs[2].resource_map.accessible_stores) :
       "Long travel time" \in Range(f.notes)

Log(r) == runs[r].shopping_list.reasoning_log

(* the steps a run has left at most: stages first, then loop iterations *)
StepsLeft(run) ==
  CASE run.pc = "start" -> 100
    [] run.pc = "analyzed" -> 80
    [] run.pc = "located" -> 60
    [] run.pc = "phase2" -> 40 + (Len(run.top_needs) - run.need_index)
    [] run.pc = "phase3" -> 20 + (Len(staples) - run.staple_index)
    [] run.pc = "totals" -> 10
    [] OTHER -> 0

(* C6: no run is in an error state, its loops stand at an element of the    *)
(* list they walk, and a returned plan carries its log and groups every     *)
(* item under a store; every step of a run lowers the number of steps it    *)
(* has left, which never falls below zero, so each stage ends.              *)
C6_TerminatesWithoutError ==
  /\ [](\A r \in RunIds :
          /\ runs[r].pc # "error"
          /\ runs[r].pc = "phase2" => runs[r].need_index \in 1..Len(runs[r].top_needs)
          /\ runs[r].pc = "phase3" => runs[r].staple_index \in 1..Len(staples)
          /\ Done(r) =>
               /\ Len(Log(r)) >= 2
               /\ SumSeq([g \in 1..Len(runs[r].shopping_list.store_visits) |->
                            Len(runs[r].shopping_list.store_visits[g].items)])
                    = Len(Items(r)))
  /\ [][\A r \in RunIds :
          /\ StepsLeft(runs'[r]) >= 0
          /\ runs'[r] # runs[r] => StepsLeft(runs'[r]) < StepsLeft(runs[r])]_vars

(* A returned plan for a profile whose allergies rule out every food the    *)
(* planner has for one of its needs.                                        *)
C6_Witness ==
  \E r \in RunIds :
    /\ Done(r)
    /\ \E i \in 1..Len(Log(r)) : Log(r)[i].text = "All foods conflict with allergies"

Results(r) == <<runs[r].priority_list, runs[r].resource_map, runs[r].shopping_list>>

(* C7: two runs on the same profile return the same NeedList, marker order  *)
(* included, the same ResourceMap and the same plan.                        *)
C7_Deterministic ==
  \A r1, r2 \in RunIds :
    (Done(r1) /\ Done(r2) /\ runs[r1].user_context = runs[r2].user_context)
      => Results(r1) = Results(r2)

(* C8: the shared catalogs are, in every state of every interleaving of     *)
(* runs, what they were at the start.                                       *)
C8_CatalogsUnchanged ==
  /\ NUTRIENT_FOOD_SOURCES = NutrientFoodSourcesCatalog
  /\ LAB_REFERENCE_RANGES = LabReferenceRangesCatalog
  /\ SYNTHETIC_STORES_DATABASE = SyntheticStoresCatalog
  /\ FOOD_DATABASE = FoodCatalog
  /\ BUDGET_ALTERNATIVES = BudgetAlternativesCatalog

(* Two runs on different profiles, both returned, whose store lookups added *)
(* the zip-specific store and whose analyses filtered food sources and      *)
(* merged needs.                                                            *)
C8_Witness ==
  /\ Done(1) /\ Done(2)
  /\ runs[1].user_context # runs[2].user_context
  /\ \A r \in RunIds :
       /\ "King Soopers" \in {runs[r].resource_map.all_stores[i].name :
                                i \in 1..Len(runs[r].resource_map.all_stores)}
       /\ \E k \in 1..Len(Needs(r)) : MergedNeed(Needs(r)[k])
       /\ \E k \in 1..Len(Needs(r)) :
            Needs(r)[k].food_sources # NUTRIENT_FOOD_SOURCES[Needs(r)[k].nutrient]

(* C9: a returned plan for a very-low budget with a reachable pantry has    *)
(* pantry items and a log entry naming the top-ranked reachable pantry.     *)
C9_PantryItems ==
  \A r \in RunIds :
    (Done(r) /\ budget_tier(runs[r].user_context.financials) = "very_low"
       /\ Len(runs[r].resource_map.food_pantries) > 0)
      => /\ Len(runs[r].shopping_list.pantry_items) > 0
         /\ \E i \in 1..Len(Log(r)) :
              /\ Log(r)[i].text = "RECOMMENDATION: Visit first (FREE)"
              /\ Log(r)[i].a = runs[r].resource_map.food_pantries[1].store.name

(* every entry of the nutrient's food-source list matches an allergen *)
SourcesAllMatch(r, nutrient) ==
  \A i \in 1..Len(NUTRIENT_FOOD_SOURCES[nutrient]) :
     ConflictsWithAllergies(NUTRIENT_FOOD_SOURCES[nutrient][i], Allergies(r))

(* every food the planner's database has for the nutrient matches an allergen *)
FoodsAllMatch(r, nutrient) ==
  \A food \in Range(get_foods_for_nutrient(nutrient)) :
     ConflictsWithAllergies(food.name, Allergies(r))

Raised(r) == {all_needs(runs[r].user_context)[i].nutrient :
                i \in 1..Len(all_needs(runs[r].user_context))}

(* the need is in the list with no food sources and an advisory names it *)
KeptEmptyWithAdvisory(r, nutrient) ==
  /\ \E k \in 1..Len(Needs(r)) :
       Needs(r)[k].nutrient = nutrient /\ Needs(r)[k].food_sources = <<>>
  /\ \E w \in 1..Len(runs[r].priority_list.warnings) :
       /\ runs[r].priority_list.warnings[w].text = "Limited food sources due to allergies"
       /\ runs[r].priority_list.warnings[w].nutrient = nutrient

NoItemFor(r, nutrient) ==
  \A i \in 1..Len(Items(r)) : nutrient \notin Range(Items(r)[i].nutrients_addressed)

(* C10 as stated: when the allergies match every entry of a need's          *)
(* food-source list, the need is kept with an empty list and an advisory,   *)
(* and no item of the plan addresses the nutrient.                          *)
C10_NoItemWhenSourcesMatch ==
  \A r \in RunIds :
    Done(r) =>
      \A nutrient \in Raised(r) :
        SourcesAllMatch(r, nutrient) =>
          KeptEmptyWithAdvisory(r, nutrient) /\ NoItemFor(r, nutrient)

(* C10: when the allergies match every entry of a need's food-source list,  *)
(* the need is kept with an empty list and an advisory; no item of the plan *)
(* addresses the nutrient when the allergies also match every food the      *)
(* planner's database has for it.                                           *)
C10_NoItemWhenFoodsMatch ==
  \A r \in RunIds :
    Done(r) =>
      \A nutrient \in Raised(r) :
        SourcesAllMatch(r, nutrient) =>
          /\ KeptEmptyWithAdvisory(r, nutrient)
          /\ FoodsAllMatch(r, nutrient) => NoItemFor(r, nutrient)

(* A returned plan for a profile whose allergies match every food source of *)
(* a raised need and every database food for it, the need among the top     *)
(* needs and skipped by the planner.                                        *)
C10_Witness ==
  \E r \in RunIds :
    /\ Done(r)
    /\ \E nutrient \in Raised(r) :
         /\ SourcesAllMatch(r, nutrient)
         /\ FoodsAllMatch(r, nutrient)
         /\ Len(get_foods_for_nutrient(nutrient)) > 0
         /\ \E i \in 1..Len(Log(r)) :
              /\ Log(r)[i].text = "All foods conflict with allergies"
              /\ Log(r)[i].a = nutrient

EmptyHistory(r) ==
  /\ IsNone(runs[r].user_context.lab_results)
  /\ runs[r].user_context.medical.current_symptoms = <<>>
  /\ runs[r].user_context.medical.family_history = <<>>

StapleNames == {FoodByKey(staples[i]).name : i \in 1..Len(staples)}

(* C11: for a profile with no lab record, no symptoms and no family         *)
(* history the NeedList is empty, the only advisory is the one about the    *)
(* missing lab results, and every item of the plan is a staple fill-in of   *)
(* OPTIONAL priority.                                                       *)
C11_EmptyProfile ==
  \A r \in RunIds :
    (EmptyHistory(r) /\ Analyzed(r)) =>
      /\ Needs(r) = <<>>
      /\ runs[r].priority_list.warnings =
           << Warning("No lab results provided - recommendations based on symptoms and history only", "") >>
      /\ \A i \in 1..Len(Items(r)) :
           /\ Items(r)[i].food.name \in StapleNames
           /\ Items(r)[i].priority = "OPTIONAL"
           /\ ~NeedDriven(Items(r)[i])
           /\ Items(r)[i].reason = <<"Budget-friendly staple for general nutrition">>

(* A returned plan of staples for such a profile. *)
C11_Witness ==
  \E r \in RunIds :
    /\ Done(r)
    /\ EmptyHistory(r)
    /\ Len(Items(r)) >= 2

HasB12(r) ==
  /\ ~IsNone(runs[r].user_context.lab_results)
  /\ Has(Val(runs[r].user_context.lab_results), "vitamin_b12_level")

B12Level(r) == Val(runs[r].user_context.lab_results).vitamin_b12_level

(* what the vitamin rules emit for Vitamin B12 on the run's lab record *)
B12Emitted(r) ==
  SelectSeq(analyze_vitamin_levels(Val(runs[r].user_context.lab_results)),
            LAMBDA need : need.nutrient = "Vitamin B12")

B12Entries(r) == SelectSeq(Needs(r), LAMBDA need : need.nutrient = "Vitamin B12")

(* C12: for a B12 value v the B12 rule emits one Vitamin B12 need of        *)
(* priority 1 when v < 300, one of priority 2 when 300 <= v < 500 and none  *)
(* when v >= 500; the NeedList then has a Vitamin B12 entry at least that   *)
(* urgent that carries the rule's marker.                                   *)
C12_B12Bands ==
  \A r \in RunIds :
    (Analyzed(r) /\ HasB12(r)) =>
      LET v == B12Level(r)
          band == IF v < 300 THEN 1 ELSE 2
      IN IF v >= 500 THEN B12Emitted(r) = <<>>
         ELSE /\ Len(B12Emitted(r)) = 1
              /\ B12Emitted(r)[1].priority = band
              /\ Len(B12Entries(r)) = 1
              /\ B12Entries(r)[1].priority <= band
              /\ "B12" \in Range(B12Entries(r)[1].related_markers)

(* An analysis of a lab record whose B12 value is 300, the boundary that    *)
(* belongs to the priority-2 band.                                          *)
C12_Witness ==
  \E r \in RunIds :
    /\ Analyzed(r) /\ HasB12(r)
    /\ B12Level(r) = 300
    /\ Len(B12Entries(r)) = 1
    /\ B12Entries(r)[1].priority = 2

(* C13: filtering a NeedList entry's food sources again, with the same      *)
(* allergy list, leaves them as they are.                                   *)
C13_FilterIdempotent ==
  \A r \in RunIds :
    Analyzed(r) =>
      \A k \in 1..Len(Needs(r)) :
        FilterFoodSources(Needs(r)[k].food_sources, Allergies(r)) = Needs(r)[k].food_sources

(* A NeedList with an entry that lost some but not all of its food sources  *)
(* to the filter and an entry that lost two neighbouring ones.              *)
C13_Witness ==
  \E r \in RunIds :
    /\ Analyzed(r)
    /\ \E k \in 1..Len(Needs(r)) :
         LET catalog == NUTRIENT_FOOD_SOURCES[Needs(r)[k].nutrient]
         IN /\ Needs(r)[k].food_sources # <<>>
            /\ Needs(r)[k].food_sources # catalog
            /\ \E i \in 1..(Len(catalog) - 1) :
                 /\ ConflictsWithAllergies(catalog[i], Allergies(r))
                 /\ ConflictsWithAllergies(catalog[i + 1], Allergies(r))

(* the needs the rules emitted for the nutrient, in rule order *)
Group(r, nutrient) ==
  SelectSeq(all_needs(runs[r].user_context), LAMBDA need : need.nutrient = nutrient)

(* C14: the NeedList entry of a nutrient has the least priority number of   *)
(* the needs emitted for it, the union of their markers, and a rationale    *)
(* that holds the rationale of every one of them.                           *)
C14_Consolidation ==
  \A r \in RunIds :
    Analyzed(r) =>
      \A k \in 1..Len(Needs(r)) :
        LET entry == Needs(r)[k]
            group == Group(r, entry.nutrient)
        IN /\ \A i \in 1..Len(group) : entry.priority <= group[i].priority
           /\ \E i \in 1..Len(group) : entry.priority = group[i].priority
           /\ Range(entry.related_markers)
                = UNION {Range(group[i].related_markers) : i \in 1..Len(group)}
           /\ \A i \in 1..Len(group) : Range(group[i].reason) \subseteq Range(entry.reason)

(* C15: every nutrient an item of the plan is recorded as addressing is     *)
(* among the nutrients its food provides, the items that hold a budget      *)
(* alternative included.                                                    *)
C15_NutrientPreserving ==
  \A r \in RunIds :
    \A i \in 1..Len(Items(r)) :
      Range(Items(r)[i].nutrients_addressed)
        \subseteq Range(Items(r)[i].food.nutrients_provided)

(* no store of the run's resource map fits the profile *)
NoFittingStore(run) == IsNone(BestStore(run.user_context, run.resource_map))

CannotServe(run) ==
  LET foods == get_foods_for_nutrient(CurrentNeed(run).nutrient)
  IN \/ run.remaining_budget <= 0
     \/ \A i \in 1..Len(foods) :
          ConflictsWithAllergies(foods[i].name, run.user_context.medical.known_allergies)

(* the lines of the run's log so far that name the nutrient *)
LinesNaming(run, nutrient) ==
  Cardinality({i \in 1..Len(run.reasoning) : nutrient \in {run.reasoning[i].a, run.reasoning[i].b}})

(* C17: a top need that cannot be served leaves the items and the remaining *)
(* budget as they are, logs exactly one line, which names the nutrient, and *)
(* the loop moves on to the next need.                                      *)
C17_SkipLeavesPlanAlone ==
  [][\A r \in RunIds :
       (runs[r].pc = "phase2" /\ runs'[r] # runs[r] /\ CannotServe(runs[r])) =>
         LET nutrient == CurrentNeed(runs[r]).nutrient
         IN /\ Items(r)' = Items(r)
            /\ runs'[r].remaining_budget = runs[r].remaining_budget
            /\ Len(runs'[r].reasoning) = Len(runs[r].reasoning) + 1
            /\ SubSeq(runs'[r].reasoning, 1, Len(runs[r].reasoning)) = runs[r].reasoning
            /\ LinesNaming(runs'[r], nutrient) = LinesNaming(runs[r], nutrient) + 1
            /\ runs'[r].need_index = runs[r].need_index + 1
            /\ runs'[r].pc \in {"phase2", "phase3"}]_vars

(* the notes of the three ways a need is skipped *)
SkipNotes(r) ==
  {runs[r].reasoning[i].text : i \in 1..Len(runs[r].reasoning)}
    \cap {"BUDGET EXHAUSTED: Skipping", "No foods found for", "All foods conflict with allergies"}

(* A returned plan whose log holds all three notes: one need found no food  *)
(* in the database, one found only foods that match an allergy, and one     *)
(* came after the money was gone.                                           *)
C17_Witness ==
  \E r \in RunIds :
    /\ Done(r)
    /\ Cardinality(SkipNotes(r)) = 3
    /\ Len(Items(r)) > 0

(* the needs the lab-value rules emit for one field of the lab record *)
LabRuleNeeds(lab, field) ==
  LET only == [f \in {field} |-> lab[f]]
  IN analyze_vitamin_levels(only) \o analyze_inflammation_markers(only)
       \o analyze_metabolic_markers(only)

(* the band of the reference table a lab value falls in *)
Band(field, level) ==
  LET LowSide(ref) == IF level < ref.low THEN "worst"
                      ELSE IF level < ref.optimal_low THEN "intermediate" ELSE "optimal"
      HighSide(ref) == IF level > ref.high THEN "worst"
                       ELSE IF level > ref.elevated THEN "intermediate" ELSE "optimal"
      glucose == LAB_REFERENCE_RANGES.glucose_fasting
  IN CASE field = "vitamin_b12_level" -> LowSide(LAB_REFERENCE_RANGES.vitamin_b12)
       [] field = "vitamin_d_level" -> LowSide(LAB_REFERENCE_RANGES.vitamin_d)
       [] field = "iron_level" -> LowSide(LAB_REFERENCE_RANGES.iron)
       [] field = "crp_level" -> HighSide(LAB_REFERENCE_RANGES.crp)
       [] field = "homocysteine_level" -> HighSide(LAB_REFERENCE_RANGES.homocysteine)
       [] field = "glucose_fasting" ->
            IF level >= glucose.prediabetic THEN "worst"
            ELSE IF level > glucose.optimal_high THEN "intermediate" ELSE "optimal"

LabValueFields ==
  {"vitamin_b12_level", "vitamin_d_level", "iron_level", "crp_level",
   "homocysteine_level", "glucose_fasting"}

(* C18: the needs a lab-value rule emits all have priority 1 when the value *)
(* is in the worst band and all have priority 2 when it is in the           *)
(* intermediate band, some need being emitted in both bands, and the rule   *)
(* emits nothing in the optimal band.                                       *)
C18_LabBands ==
  \A r \in RunIds :
    (Analyzed(r) /\ ~IsNone(runs[r].user_context.lab_results)) =>
      LET lab == Val(runs[r].user_context.lab_results)
      IN \A field \in LabValueFields \cap DOMAIN lab :
           LET needs == LabRuleNeeds(lab, field)
               band == Band(field, lab[field])
           IN /\ band = "optimal" => needs = <<>>
              /\ band = "worst" =>
                   needs # <<>> /\ \A i \in 1..Len(needs) : needs[i].priority = 1
              /\ band = "intermediate" =>
                   needs # <<>> /\ \A i \in 1..Len(needs) : needs[i].priority = 2

(* the run is past the pantry phase of the planner *)
PastPantryPhase(r) == runs[r].pc \in {"phase2", "phase3", "totals", "done"}

PantryPlaceholders(r) == runs[r].shopping_list.pantry_items

(* the specialty tags of the top-ranked pantry of the run's resource map *)
TopPantryTags(r) == Range(runs[r].resource_map.food_pantries[1].store.specialty_items)

TierOf(priority) ==
  CASE priority = 1 -> "CRITICAL"
    [] priority = 2 -> "HIGH"
    [] priority = 3 -> "MODERATE"
    [] priority >= 4 -> "OPTIONAL"

(* the top need of the run with the nutrient *)
TopNeed(r, nutrient) ==
  runs[r].top_needs[CHOOSE k \in 1..Len(runs[r].top_needs) :
                      runs[r].top_needs[k].nutrient = nutrient]

MergedAcrossPriorities(r) ==
  \E i \in 1..Len(Items(r)) :
    /\ Len(Items(r)[i].nutrients_addressed) >= 2
    /\ TopNeed(r, Items(r)[i].nutrients_addressed[2]).priority
         # TopNeed(r, Items(r)[i].nutrients_addressed[1]).priority

AccessibleStores(r) == runs[r].resource_map.accessible_stores

(* s is t with some of its elements left out, the others in t's order *)
RECURSIVE IsSubSequence(_, _)
IsSubSequence(s, t) ==
  IF Len(s) = 0 THEN TRUE
  ELSE IF Len(t) = 0 THEN FALSE
  ELSE IF Head(s) = Head(t) THEN IsSubSequence(Tail(s), Tail(t))
  ELSE IsSubSequence(s, Tail(t))

(* C21: accessible_stores holds, once each, exactly the stores of the       *)
(* profile's area whose feasibility is accessible, by accessibility score   *)
(* descending and, at equal scores, by distance ascending; food_pantries is *)
(* a sub-sequence of it in the same order.                                  *)
C21_AccessibleSorted ==
  \A r \in RunIds :
    Located(r) =>
      LET stores == runs[r].resource_map.all_stores
          logistics == runs[r].user_context.logistics
          listed == AccessibleStores(r)
      IN /\ {listed[i] : i \in 1..Len(listed)}
              = {f \in {calculate_travel_feasibility(stores[k], logistics) : k \in 1..Len(stores)} :
                   f.is_accessible}
         /\ \A i, j \in 1..Len(listed) : i # j => listed[i].store.name # listed[j].store.name
         /\ \A i \in 1..(Len(listed) - 1) :
              \/ listed[i].accessibility_score > listed[i + 1].accessibility_score
              \/ /\ listed[i].accessibility_score = listed[i + 1].accessibility_score
                 /\ listed[i].store.distance_miles <= listed[i + 1].store.distance_miles
         /\ IsSubSequence(runs[r].resource_map.food_pantries, listed)

(* A resource map with two stores of equal score at different distances,    *)
(* a store left out as not accessible, and two pantries.                    *)
C21_Witness ==
  \E r \in RunIds :
    /\ Located(r)
    /\ Len(AccessibleStores(r)) < Len(runs[r].resource_map.all_stores)
    /\ Len(runs[r].resource_map.food_pantries) = 2
    /\ \E i \in 1..(Len(AccessibleStores(r)) - 1) :
         /\ AccessibleStores(r)[i].accessibility_score
              = AccessibleStores(r)[i + 1].accessibility_score
         /\ AccessibleStores(r)[i].store.distance_miles
              < AccessibleStores(r)[i + 1].store.distance_miles

(* C22: every store of accessible_stores whose estimated travel time, with  *)
(* the travel mode finally chosen, is over 45 minutes belongs to a profile  *)
(* with at least 2 grocery trips per week and carries the long-travel note. *)
C22_LongTripsNeedTwoTrips ==
  \A r \in RunIds :
    Located(r) =>
      \A i \in 1..Len(AccessibleStores(r)) :
        LET f == AccessibleStores(r)[i]
        IN /\ f.estimated_time_minutes
                = calculate_travel_time(f.store.distance_miles, f.travel_method)
           /\ f.estimated_time_minutes > 45 =>
                /\ runs[r].user_context.logistics.grocery_trips_per_week >= 2
                /\ "Long travel time" \in Range(f.notes)

(* A resource map of a profile with two weekly trips that lists a store     *)
(* more than 45 minutes away, and a nearer one without the note.            *)
C22_Witness ==
  \E r \in RunIds :
    /\ Located(r)
    /\ runs[r].user_context.logistics.grocery_trips_per_week = 2
    /\ \E i \in 1..Len(AccessibleStores(r)) :
         AccessibleStores(r)[i].estimated_time_minutes > 45
    /\ \E i \in 1..Len(AccessibleStores(r)) :
         /\ AccessibleStores(r)[i].estimated_time_minutes <= 45
         /\ "Long travel time" \notin Range(AccessibleStores(r)[i].notes)

(* C23: a store at distance d is reachable, the long-trip override apart,   *)
(* exactly when d is within the profile's travel limit, or d is at most 2   *)
(* miles, or d is at most 8 miles and public transit is available.  A store *)
(* beyond the limit that the 2 miles admit is reached on foot, one that     *)
(* only the 8 miles admit by transit; every other store has the mode drive  *)
(* if a vehicle is available, else transit if transit is available, else    *)
(* walk.  Distances are in tenths of a mile.                                *)
C23_ReachabilityAndMode ==
  \A r \in RunIds :
    Located(r) =>
      LET stores == runs[r].resource_map.all_stores
          logistics == runs[r].user_context.logistics
          drive_transit_walk == IF logistics.has_vehicle THEN "drive"
                                ELSE IF logistics.has_public_transit THEN "transit"
                                ELSE "walk"
      IN \A k \in 1..Len(stores) :
           LET d == stores[k].distance_miles
               within == d <= logistics.max_travel_distance_miles
               reachable == within \/ d <= 20 \/ (d <= 80 /\ logistics.has_public_transit)
               mode == IF within THEN drive_transit_walk
                       ELSE IF d <= 20 THEN "walk"
                       ELSE IF d <= 80 /\ logistics.has_public_transit THEN "transit"
                       ELSE drive_transit_walk
               long_trip == calculate_travel_time(d, mode) > 45
               listed == {i \in 1..Len(AccessibleStores(r)) :
                            AccessibleStores(r)[i].store = stores[k]}
           IN /\ (listed # {}) = (reachable /\ (long_trip => logistics.grocery_trips_per_week >= 2))
              /\ \A i \in listed : AccessibleStores(r)[i].travel_method = mode
              /\ calculate_travel_feasibility(stores[k], logistics).travel_method = mode

(* the run's resource map lists a store with the note and the travel mode *)
ListedWith(r, note, method) ==
  \E i \in 1..Len(AccessibleStores(r)) :
    /\ note \in Range(AccessibleStores(r)[i].notes)
    /\ AccessibleStores(r)[i].travel_method = method

(* A resource map of a profile with a vehicle and with transit that lists a *)
(* store within the limit reached by car, a store beyond it reached on foot *)
(* and a store beyond it reached by transit.                                *)
C23_Witness ==
  \E r \in RunIds :
    /\ Located(r)
    /\ runs[r].user_context.logistics.has_vehicle
    /\ ListedWith(r, "Walking distance", "walk")
    /\ ListedWith(r, "Accessible via public transit", "transit")
    /\ ListedWith(r, "Very close", "drive")

(* C24: a step of the staple fill-in moves forward in the staple list or    *)
(* ends the loop.  It adds an item only if more than 2 dollars remain, the  *)
(* staple at hand is not on the list and costs no more than what remains;   *)
(* the item is that staple, OPTIONAL, with no store and no nutrients        *)
(* addressed.  With 2 dollars or less remaining the step ends the loop and  *)
(* adds nothing.  No step of the fill-in leaves a negative remaining budget *)
(* that it did not find.                                                    *)
C24_StapleFillIn ==
  [][\A r \in RunIds :
       (runs[r].pc = "phase3" /\ runs'[r] # runs[r]) =>
         LET run == runs[r]
             staple == FoodByKey(staples[run.staple_index])
             added == Items(r)' # Items(r)
         IN /\ run.staple_index \in 1..Len(staples)
            /\ \/ runs'[r].pc = "totals"
               \/ runs'[r].pc = "phase3" /\ runs'[r].staple_index = run.staple_index + 1
            /\ added =>
                 /\ run.remaining_budget > 200
                 /\ \A i \in 1..Len(Items(r)) : Items(r)[i].food.name # staple.name
                 /\ staple.price_estimate <= run.remaining_budget
                 /\ Items(r)' = Append(Items(r),
                        [food |-> staple, quantity |-> 1, priority |-> "OPTIONAL",
                         reason |-> <<"Budget-friendly staple for general nutrition">>,
                         suggested_store |-> NoneVal, estimated_cost |-> staple.price_estimate,
                         nutrients_addressed |-> <<>>])
                 /\ runs'[r].remaining_budget = run.remaining_budget - staple.price_estimate
            /\ ~added => runs'[r].remaining_budget = run.remaining_budget
            /\ run.remaining_budget <= 200 => (~added /\ runs'[r].pc = "totals")
            /\ runs'[r].remaining_budget >= 0 \/ runs'[r].remaining_budget = run.remaining_budget]_vars

(* the staple items of the run's plan *)
StapleItems(r) == SelectSeq(Items(r), LAMBDA item : ~NeedDriven(item))

(* A returned plan in which the fill-in added a staple, passed over one     *)
(* already on the list, and stopped with between 0 and 2 dollars left       *)
(* before the end of the staple list.                                       *)
C24_Witness ==
  \E r \in RunIds :
    /\ Done(r)
    /\ Len(StapleItems(r)) > 0
    /\ \E k \in 1..Len(staples) : \E i \in 1..Len(Items(r)) :
         NeedDriven(Items(r)[i]) /\ Items(r)[i].food.name = FoodByKey(staples[k]).name
    /\ runs[r].remaining_budget \in 0..200
    /\ runs[r].staple_index <= Len(staples)

(* the place of the item in the order of selection: a need-driven item by   *)
(* the place among the top needs of the need it was created for, a staple   *)
(* after all of them, by its place in the staple list                       *)
SelectionRank(r, item) ==
  IF NeedDriven(item)
  THEN CHOOSE k \in 1..Len(runs[r].top_needs) :
         runs[r].top_needs[k].nutrient = item.nutrients_addressed[1]
  ELSE Len(runs[r].top_needs)
       + (CHOOSE k \in 1..Len(staples) : FoodByKey(staples[k]).name = item.food.name)

(* C25: the item list of a returned plan is in ascending order of shopping  *)
(* priority (CRITICAL, HIGH, MODERATE, OPTIONAL), and the items of one      *)
(* priority are in the order of their selection: need-driven items in need  *)
(* order, then staples in staple-list order.  The final sort moves no item  *)
(* past another of the same priority.                                       *)
C25_ItemsByTier ==
  /\ [](\A r \in RunIds :
          Done(r) =>
            \A i, j \in 1..Len(Items(r)) :
              i < j =>
                LET a == Items(r)[i]
                    b == Items(r)[j]
                IN \/ ShoppingPriorityValue[a.priority] < ShoppingPriorityValue[b.priority]
                   \/ /\ a.priority = b.priority
                      /\ SelectionRank(r, a) < SelectionRank(r, b))
  /\ [][\A r \in RunIds :
          (runs[r].pc = "totals" /\ runs'[r].pc = "done") =>
            \A tier \in DOMAIN ShoppingPriorityValue :
              SelectSeq(Items(r)', LAMBDA item : item.priority = tier)
                = SelectSeq(Items(r), LAMBDA item : item.priority = tier)]_vars

(* A returned plan with items of three priorities, two need-driven ones of  *)
(* the same priority, and two staples.                                      *)
C25_Witness ==
  \E r \in RunIds :
    /\ Done(r)
    /\ Cardinality({Items(r)[i].priority : i \in 1..Len(Items(r))}) >= 3
    /\ \E i, j \in 1..Len(Items(r)) :
         /\ i # j
         /\ NeedDriven(Items(r)[i]) /\ NeedDriven(Items(r)[j])
         /\ Items(r)[i].priority = Items(r)[j].priority
    /\ Len(StapleItems(r)) >= 2

(* the run's planner has taken its top needs *)
Planning(r) == runs[r].pc \in {"phase2", "phase3", "totals", "done"}

(* C26: the planner considers the first 8 entries of the NeedList, which is *)
(* in ascending priority order, and no other: the plan has at most 8        *)
(* need-driven items, and the nutrient of an entry ranked 9th or later is   *)
(* in no item's nutrients_addressed.                                        *)
C26_TopEightOnly ==
  \A r \in RunIds :
    Planning(r) =>
      LET needs == Needs(r)
          considered == IF Len(needs) < 8 THEN Len(needs) ELSE 8
      IN /\ \A k \in 1..(Len(needs) - 1) : needs[k].priority <= needs[k + 1].priority
         /\ runs[r].top_needs = SubSeq(needs, 1, considered)
         /\ Cardinality({i \in 1..Len(Items(r)) : NeedDriven(Items(r)[i])}) <= 8
         /\ \A k \in 9..Len(needs) : \A i \in 1..Len(Items(r)) :
              needs[k].nutrient \notin Range(Items(r)[i].nutrients_addressed)

(* A returned plan for a NeedList of more than 8 entries, with money left   *)
(* over and a database food for the 9th entry's nutrient.                   *)
C26_Witness ==
  \E r \in RunIds :
    /\ Done(r)
    /\ Len(Needs(r)) > 8
    /\ runs[r].remaining_budget > 200
    /\ Len(SafeOptions(get_foods_for_nutrient(Needs(r)[9].nutrient), Allergies(r))) > 0

(* C27: no staple item of the plan has a food name that contains, in any    *)
(* letter case, one of the profile's allergy strings.                       *)
C27_NoAllergenInStaples ==
  \A r \in RunIds :
    \A i \in 1..Len(StapleItems(r)) :
      ~ConflictsWithAllergies(StapleItems(r)[i].food.name, Allergies(r))

(* what was left of the weekly budget when the k-th item of the list, which *)
(* is in selection order until the final sort, was added                    *)
LeftBefore(r, k) ==
  runs[r].user_context.financials.weekly_budget
    - SumSeq([j \in 1..(k - 1) |-> Items(r)[j].estimated_cost])

(* the items that cost more than was left when they were added *)
Unaffordable(r) ==
  {k \in 1..Len(Items(r)) : Items(r)[k].estimated_cost > LeftBefore(r, k)}

(* C28: an item that costs more than the remaining budget is added only for *)
(* a need, as the cheapest safe candidate of the fallback; once the         *)
(* remaining budget is 0 or less no item is added and none changes, and a   *)
(* negative remaining budget stays as it is; while the plan is built, a     *)
(* negative remaining budget means that exactly one item was unaffordable   *)
(* when it was added, the last one of the list.                             *)
C28_NegativeAtMostOnce ==
  /\ [](\A r \in RunIds :
          (runs[r].pc \in {"phase2", "phase3", "totals"} /\ runs[r].remaining_budget < 0) =>
            Unaffordable(r) = {Len(Items(r))})
  /\ [][\A r \in RunIds :
          (runs[r].pc \in {"phase2", "phase3"} /\ runs'[r] # runs[r]) =>
            LET run == runs[r]
                added == Len(Items(r)') > Len(Items(r))
                item == Items(r)'[Len(Items(r)')]
            IN /\ (added /\ item.estimated_cost > run.remaining_budget) =>
                    /\ run.pc = "phase2"
                    /\ item.food = CurrentOptions(run)[1]
                    /\ item.nutrients_addressed = <<CurrentNeed(run).nutrient>>
               /\ run.remaining_budget <= 0 => Items(r)' = Items(r)
               /\ run.remaining_budget < 0 => runs'[r].remaining_budget = run.remaining_budget
               /\ \A i \in 1..Len(Items(r)) :
                    Items(r)'[i].estimated_cost = Items(r)[i].estimated_cost]_vars

(* A returned plan with a negative budget_remaining whose need-driven items *)
(* include affordable ones before the unaffordable one, and whose later     *)
(* needs were skipped.                                                      *)
C28_Witness ==
  \E r \in RunIds :
    /\ Done(r)
    /\ runs[r].shopping_list.budget_remaining < 0
    /\ Len(Items(r)) >= 2
    /\ "BUDGET EXHAUSTED: Skipping" \in SkipNotes(r)

(* the store the claim assigns: the first of accessible_stores that accepts *)
(* SNAP when the profile has SNAP and is not low on inventory, or none      *)
AssignedStore(r) ==
  LET listed == AccessibleStores(r)
      fits == {i \in 1..Len(listed) :
                 /\ runs[r].user_context.financials.snap_status => listed[i].store.snap_accepted
                 /\ listed[i].store.inventory_level # "low"}
  IN IF fits = {} THEN NoneVal
     ELSE Some(listed[CHOOSE i \in fits : \A j \in fits : i <= j].store.name)

StoreVisits(r) == runs[r].shopping_list.store_visits

(* C29: every need-driven item of a plan carries the same suggested store,  *)
(* the one assigned to the profile, and every staple carries none; in a     *)
(* returned plan store_visits has at most two groups, that of the assigned  *)
(* store and the "Any Store" one, and the groups together hold each item of *)
(* the plan exactly once.                                                   *)
C29_OneStorePerPlan ==
  \A r \in RunIds :
    /\ Planning(r) =>
         \A i \in 1..Len(Items(r)) :
           Items(r)[i].suggested_store
             = IF NeedDriven(Items(r)[i]) THEN AssignedStore(r) ELSE NoneVal
    /\ Done(r) =>
         LET visits == StoreVisits(r)
             grouped == Flatten([g \in 1..Len(visits) |-> visits[g].items])
         IN /\ Len(visits) <= 2
            /\ \A g, h \in 1..Len(visits) : g # h => visits[g].store # visits[h].store
            /\ \A g \in 1..Len(visits) :
                 \/ visits[g].store = "Any Store"
                 \/ Some(visits[g].store) = AssignedStore(r)
            /\ Len(visits) = 2 => \E g \in 1..2 : visits[g].store = "Any Store"
            /\ Len(grouped) = Len(Items(r))
            /\ \A i \in 1..Len(Items(r)) :
                 Cardinality({k \in 1..Len(grouped) : grouped[k] = Items(r)[i]}) = 1

(* A returned plan of a profile with SNAP whose top-ranked store is not the *)
(* assigned one, with two need-driven items, a staple and two groups.       *)
C29_Witness ==
  \E r \in RunIds :
    /\ Done(r)
    /\ runs[r].user_context.financials.snap_status
    /\ AssignedStore(r) # NoneVal
    /\ AssignedStore(r) # Some(AccessibleStores(r)[1].store.name)
    /\ Cardinality({i \in 1..Len(Items(r)) : NeedDriven(Items(r)[i])}) >= 2
    /\ Len(StapleItems(r)) >= 1
    /\ Len(StoreVisits(r)) = 2

(* the places in the food database of the foods that supply the nutrient    *)
(* and match none of the allergies                                          *)
SafeSuppliers(nutrient, known_allergies) ==
  {i \in 1..Len(FOOD_DATABASE) :
     /\ nutrient \in Range(FOOD_DATABASE[i].food.nutrients_provided)
     /\ ~ConflictsWithAllergies(FOOD_DATABASE[i].food.name, known_allergies)}

(* the cheapest of them, the earliest declared among equally cheap ones *)
CheapestSafe(nutrient, known_allergies) ==
  LET safe == SafeSuppliers(nutrient, known_allergies)
  IN FOOD_DATABASE[CHOOSE i \in safe :
                     \A j \in safe :
                       \/ FOOD_DATABASE[i].food.price_estimate < FOOD_DATABASE[j].food.price_estimate
                       \/ /\ FOOD_DATABASE[i].food.price_estimate
                               = FOOD_DATABASE[j].food.price_estimate
                          /\ i <= j].food

ModerateOrComfortable(run) == run.user_context.financials.weekly_budget >= 10000

(* C30: in the moderate and the comfortable tier (100 dollars a week and    *)
(* more) a need that is processed and has an allergen-safe candidate ends   *)
(* on the item of the cheapest allergen-safe database food that supplies    *)
(* its nutrient, the earliest declared among equally cheap ones.            *)
C30_CheapestSafeFood ==
  [][\A r \in RunIds :
       (/\ runs[r].pc = "phase2" /\ runs'[r] # runs[r]
        /\ ModerateOrComfortable(runs[r])
        /\ runs[r].remaining_budget > 0
        /\ SafeSuppliers(CurrentNeed(runs[r]).nutrient, Allergies(r)) # {}) =>
         LET nutrient == CurrentNeed(runs[r]).nutrient
             food == CheapestSafe(nutrient, Allergies(r))
             before == {i \in 1..Len(Items(r)) : nutrient \in Range(Items(r)[i].nutrients_addressed)}
             after == {i \in 1..Len(Items(r)') : nutrient \in Range(Items(r)'[i].nutrients_addressed)}
         IN /\ after # {}
            /\ \A i \in after \ before : Items(r)'[i].food = food
            /\ \E i \in after : Items(r)'[i].food = food]_vars

(* A returned plan of a profile with 100 dollars or more a week,            *)
(* where the allergies rule out the cheapest database food of a need that   *)
(* got an item.                                                             *)
C30_Witness ==
  \E r \in RunIds :
    /\ Done(r)
    /\ ModerateOrComfortable(runs[r])
    /\ \E k \in 1..Len(runs[r].top_needs) :
         LET nutrient == runs[r].top_needs[k].nutrient
         IN /\ SafeSuppliers(nutrient, Allergies(r)) # {}
            /\ CheapestSafe(nutrient, Allergies(r)) # CheapestSafe(nutrient, <<>>)
            /\ \E i \in 1..Len(Items(r)) :
                 /\ Items(r)[i].food = CheapestSafe(nutrient, Allergies(r))
                 /\ nutrient \in Range(Items(r)[i].nutrients_addressed)

====
